---- MODULE Spec2Model ----
(***************************************************************************)
(* The interactive shell of crates/cli-shell (main.rs, commands.rs): the   *)
(* read-eval-print loop, the pipe and redirection handling, the dispatcher *)
(* and the builtins, over an explicit filesystem tree and working          *)
(* directory.                                                              *)
(*                                                                         *)
(* Text (a line, a command's output, a file's content, a file name) is a   *)
(* sequence of atoms.  An atom is a TLA+ string that stands for the same   *)
(* characters in the program: " " is one blank, "|" and ">" are the two    *)
(* operator characters, "/" is the path separator, "\n" is a newline, and  *)
(* a word such as "echo" or "f" is that word.  Two adjacent word atoms are *)
(* one longer word, as adjacent characters are.                            *)
(***************************************************************************)
EXTENDS Integers, Sequences, FiniteSets, TLC

VARIABLES
    pc,          \* "prompt" (top of the loop), "pipe" (inside process_pipe), "exited", "crashed"
    fs,          \* the filesystem: absolute path (sequence of names) -> node
    cwd,         \* the process's working directory, an absolute path
    stdin,       \* "open" or "eof": whether standard input can still deliver lines
    consumed,    \* number of atoms read from standard input so far
    input,       \* the trimmed line of the current (or last) turn
    commands,    \* process_pipe: the trimmed segments of the line
    idx,         \* process_pipe: number of segments already executed
    output,      \* the local `output` of process_command and of process_pipe
    outs,        \* process_pipe: the value of output after each completed stage
    snaps,       \* process_pipe: [fs, cwd] when the line started and after each completed stage
    cmdText,     \* process_command: command text returned by parse_redirection
    redirect,    \* process_command: redirection returned by parse_redirection
    dispatched,  \* builtins invoked in this turn, in order: [stage, name, args]
    stdout,      \* texts printed by process_command/process_pipe in this turn
    stderr,      \* the error reported by main in this turn (NoError if none)
    written,     \* write_to_file calls of this turn that opened their target
    seqlog,      \* the running sequence of redirected commands to one target
    processor,   \* cat: the LineProcessor built by main
    reader,      \* cat: the files still to process, the first one as far as it is unread
    linesRead,   \* cat: for each file opened, the number of lines read from it so far
    catArgs,     \* cat: the flags of the command line (Args)
    lineLog,     \* cat: the lines handed to process_line so far, in order
    tool         \* standalone mkdir and mv: the arguments left and the last call made

vars == <<pc, fs, cwd, stdin, consumed, input, commands, idx, output, outs,
          snaps, cmdText, redirect, dispatched, stdout, stderr, written, seqlog,
         processor, reader, linesRead, catArgs, lineLog, tool>>

\* the variables of the cat program, and the shell's variables that the cat
\* program shares nothing with
catVars == <<processor, reader, linesRead, catArgs, lineLog>>
\* the shell runs no standalone program
NoTool == [name |-> "none"]
toolVars == <<catVars, tool>>
shellVars == <<tool, fs, cwd, stdin, consumed, input, commands, idx, output, outs,
               snaps, cmdText, redirect, dispatched, stderr, written, seqlog>>

(***************************************************************************)
(* Bounds of the model.                                                    *)
(***************************************************************************)
MaxInput == 10
MaxStages == 3
MaxParseLen == 5

(***************************************************************************)
(* Strings: the std operations the shell applies to a line.                *)
(***************************************************************************)
IsWhitespace(c) == c \in {" ", "\n"}

RECURSIVE TrimStart(_)
TrimStart(s) ==
    IF s # <<>> /\ IsWhitespace(Head(s)) THEN TrimStart(Tail(s)) ELSE s

RECURSIVE TrimEnd(_)
TrimEnd(s) ==
    IF s # <<>> /\ IsWhitespace(s[Len(s)])
    THEN TrimEnd(SubSeq(s, 1, Len(s) - 1))
    ELSE s

\* str::trim
trim(s) == TrimEnd(TrimStart(s))

\* str::contains(char)
Contains(s, c) == \E i \in 1..Len(s) : s[i] = c

\* whether pattern pat occurs in s at (1-based) position i
OccursAt(s, pat, i) ==
    /\ i + Len(pat) - 1 <= Len(s)
    /\ \A k \in 1..Len(pat) : s[i + k - 1] = pat[k]

\* str::find: the 1-based position of the first occurrence of pat, 0 for None
Find(s, pat) ==
    IF \E i \in 1..Len(s) : OccursAt(s, pat, i)
    THEN CHOOSE i \in 1..Len(s) :
             /\ OccursAt(s, pat, i)
             /\ \A j \in 1..(i - 1) : ~OccursAt(s, pat, j)
    ELSE 0

\* str::split(char): the pieces between the separators, empty pieces kept
RECURSIVE Split(_, _)
Split(s, sep) ==
    LET p == Find(s, <<sep>>) IN
    IF p = 0 THEN <<s>>
    ELSE <<SubSeq(s, 1, p - 1)>> \o Split(SubSeq(s, p + 1, Len(s)), sep)

\* str::split_whitespace: the maximal runs of non-whitespace, in order
RECURSIVE SplitWhitespace(_)
SplitWhitespace(s) ==
    LET t == TrimStart(s) IN
    IF t = <<>> THEN <<>>
    ELSE LET n == IF \E i \in 1..Len(t) : IsWhitespace(t[i])
                  THEN (CHOOSE i \in 1..Len(t) :
                            /\ IsWhitespace(t[i])
                            /\ \A j \in 1..(i - 1) : ~IsWhitespace(t[j])) - 1
                  ELSE Len(t)
         IN <<SubSeq(t, 1, n)>> \o SplitWhitespace(SubSeq(t, n + 1, Len(t)))

\* concatenation of a sequence of texts
RECURSIVE Concat(_)
Concat(ss) == IF ss = <<>> THEN <<>> ELSE Head(ss) \o Concat(Tail(ss))

\* [&str]::join(" ")
RECURSIVE JoinSpace(_)
JoinSpace(ss) ==
    IF ss = <<>> THEN <<>>
    ELSE IF Len(ss) = 1 THEN ss[1]
    ELSE ss[1] \o <<" ">> \o JoinSpace(Tail(ss))

\* str::starts_with('-') and str::starts_with('.') on a token or name
StartsWithDash(tok) == tok # <<>> /\ tok[1] \in {"-", "-a", "-l", "-p", "-r", "-R"}
StartsWithDot(name) == name # <<>> /\ name[1] \in {".", ".."}

\* the bytes of an atom, for the byte order of file names and for lengths
HelpLen == 971
Bytes(a) ==
    CASE a = " " -> <<32>>
      [] a = "\n" -> <<10>>
      [] a = "-" -> <<45>>
      [] a = "-R" -> <<45, 82>>
      [] a = "-a" -> <<45, 97>>
      [] a = "-l" -> <<45, 108>>
      [] a = "-p" -> <<45, 112>>
      [] a = "-r" -> <<45, 114>>
      [] a = "." -> <<46>>
      [] a = ".." -> <<46, 46>>
      [] a = "/" -> <<47>>
      [] a = ">" -> <<62>>
      [] a = "|" -> <<124>>
      [] a = "cat" -> <<99, 97, 116>>
      [] a = "cd" -> <<99, 100>>
      [] a = "d" -> <<100>>
      [] a = "e" -> <<101>>
      [] a = "echo" -> <<101, 99, 104, 111>>
      [] a = "exit" -> <<101, 120, 105, 116>>
      [] a = "f" -> <<102>>
      [] a = "foo" -> <<102, 111, 111>>
      [] a = "g" -> <<103>>
      [] a = "help" -> <<104, 101, 108, 112>>
      [] a = "hi" -> <<104, 105>>
      [] a = "ho" -> <<104, 111>>
      [] a = "ls" -> <<108, 115>>
      [] a = "mkdir" -> <<109, 107, 100, 105, 114>>
      [] a = "mv" -> <<109, 118>>
      [] a = "pwd" -> <<112, 119, 100>>
      [] a = "quit" -> <<113, 117, 105, 116>>
      [] a = "rm" -> <<114, 109>>
      [] a = "rmdir" -> <<114, 109, 100, 105, 114>>
      [] a = "touch" -> <<116, 111, 117, 99, 104>>
      [] a = "EXIT" -> <<69, 88, 73, 84>>
      [] a = "0" -> <<48>>
      [] a = "1" -> <<49>>
      [] a = "2" -> <<50>>
      [] a = "3" -> <<51>>
      [] a = "4" -> <<52>>
      [] a = "5" -> <<53>>
      [] a = "6" -> <<54>>
      [] a = "7" -> <<55>>
      [] a = "8" -> <<56>>
      [] a = "9" -> <<57>>

RECURSIVE BytesOf(_)
BytesOf(s) == IF s = <<>> THEN <<>> ELSE Bytes(Head(s)) \o BytesOf(Tail(s))

\* the order of byte strings (Ord for OsString): a strictly before b
RECURSIVE BytesLess(_, _)
BytesLess(a, b) ==
    IF b = <<>> THEN FALSE
    ELSE IF a = <<>> THEN TRUE
    ELSE IF Head(a) # Head(b) THEN Head(a) < Head(b)
    ELSE BytesLess(Tail(a), Tail(b))

NameLess(a, b) == BytesLess(BytesOf(a), BytesOf(b))

\* a set of names as the sequence sorted by byte order
RECURSIVE SortNames(_)
SortNames(S) ==
    IF S = {} THEN <<>>
    ELSE LET m == CHOOSE x \in S : \A y \in S \ {x} : NameLess(x, y)
         IN <<m>> \o SortNames(S \ {m})

\* the decimal digits of a natural number
RECURSIVE Digits(_)
Digits(n) ==
    LET d == <<"0", "1", "2", "3", "4", "5", "6", "7", "8", "9">>[(n % 10) + 1] IN
    IF n < 10 THEN <<d>> ELSE Digits(n \div 10) \o <<d>>

\* format "{:>10}": right-aligned in a field of ten
SizeWidth == 10
RECURSIVE PadLeft(_)
PadLeft(s) == IF Len(s) >= SizeWidth THEN s ELSE PadLeft(<<" ">> \o s)

\* str::len of a text, in bytes
RECURSIVE ByteLen(_)
ByteLen(s) ==
    IF s = <<>> THEN 0
    ELSE (IF Head(s) = "<help>" THEN HelpLen ELSE Len(Bytes(Head(s))))
         + ByteLen(Tail(s))

(***************************************************************************)
(* The filesystem the builtins act on: a tree of directories and files,    *)
(* as a function from the absolute paths that exist to their nodes.        *)
(***************************************************************************)
Root == <<>>
Home == Root
DirSize == 4096
DirNode == [kind |-> "dir", content |-> <<>>]
FileNode(text) == [kind |-> "file", content |-> text]

IsDir(f, p) == p \in DOMAIN f /\ f[p].kind = "dir"
IsFile(f, p) == p \in DOMAIN f /\ f[p].kind = "file"
Parent(p) == IF p = Root THEN Root ELSE SubSeq(p, 1, Len(p) - 1)
IsPrefix(p, q) == Len(p) <= Len(q) /\ SubSeq(q, 1, Len(p)) = p
Children(f, p) == {q \in DOMAIN f : Len(q) = Len(p) + 1 /\ IsPrefix(p, q)}
Subtree(f, p) == {q \in DOMAIN f : IsPrefix(p, q)}
Without(f, S) == [q \in DOMAIN f \ S |-> f[q]]
With(f, p, node) == (p :> node) @@ f

NoPath == [ok |-> FALSE, path |-> Root]

\* path resolution: every component is looked up in an existing directory
RECURSIVE Walk(_, _, _)
Walk(f, cur, comps) ==
    IF comps = <<>> THEN [ok |-> TRUE, path |-> cur]
    ELSE IF ~IsDir(f, cur) THEN NoPath
    ELSE LET c == Head(comps) IN
         IF c = <<>> \/ c = <<".">> THEN Walk(f, cur, Tail(comps))
         ELSE IF c = <<"..">> \/ c = <<".", ".">>
              THEN Walk(f, Parent(cur), Tail(comps))
         ELSE Walk(f, cur \o <<c>>, Tail(comps))

\* Path::new(text) seen from working directory wd; the empty path names nothing
Resolve(f, wd, text) ==
    IF text = <<>> THEN NoPath
    ELSE Walk(f, IF text[1] = "/" THEN Root ELSE wd, Split(text, "/"))

\* Path::exists, Path::is_dir
PathExists(f, wd, text) ==
    LET r == Resolve(f, wd, text) IN r.ok /\ r.path \in DOMAIN f
PathIsDir(f, wd, text) ==
    LET r == Resolve(f, wd, text) IN r.ok /\ IsDir(f, r.path)

\* fs::create_dir
create_dir(f, wd, text) ==
    LET r == Resolve(f, wd, text) IN
    IF r.ok /\ r.path \notin DOMAIN f
    THEN [ok |-> TRUE, fs |-> With(f, r.path, DirNode)]
    ELSE [ok |-> FALSE, fs |-> f]

\* fs::create_dir_all: every missing component is created, left to right
RECURSIVE CreateAll(_, _, _)
CreateAll(f, cur, comps) ==
    IF IsFile(f, cur) THEN [ok |-> FALSE, fs |-> f]
    ELSE LET g == IF cur \in DOMAIN f THEN f ELSE With(f, cur, DirNode) IN
         IF comps = <<>> THEN [ok |-> TRUE, fs |-> g]
         ELSE LET c == Head(comps) IN
              IF c = <<>> \/ c = <<".">> THEN CreateAll(g, cur, Tail(comps))
              ELSE IF c = <<"..">> \/ c = <<".", ".">>
                   THEN CreateAll(g, Parent(cur), Tail(comps))
              ELSE CreateAll(g, cur \o <<c>>, Tail(comps))

create_dir_all(f, wd, text) ==
    LET start == IF text # <<>> /\ text[1] = "/" THEN Root ELSE wd IN
    IF text = <<>> THEN [ok |-> TRUE, fs |-> f]
    ELSE IF ~IsDir(f, start) THEN [ok |-> FALSE, fs |-> f]
    ELSE CreateAll(f, start, Split(text, "/"))

\* fs::remove_dir: an existing, empty directory other than "." and the root
remove_dir(f, wd, text) ==
    LET r == Resolve(f, wd, text)
        comps == Split(text, "/") IN
    IF /\ r.ok
       /\ IsDir(f, r.path)
       /\ Children(f, r.path) = {}
       /\ r.path # Root
       /\ comps[Len(comps)] # <<".">>
    THEN [ok |-> TRUE, fs |-> Without(f, {r.path})]
    ELSE [ok |-> FALSE, fs |-> f]

\* fs::remove_dir_all of a directory: all beneath it is removed, then the
\* directory itself, which fails for the root and for a path ending in "."
\* or ".."
remove_dir_all(f, wd, text) ==
    LET r == Resolve(f, wd, text)
        comps == Split(text, "/") IN
    IF r.ok /\ IsDir(f, r.path)
    THEN IF r.path = Root \/ comps[Len(comps)] \in {<<".">>, <<"..">>, <<".", ".">>}
         THEN [ok |-> FALSE, fs |-> Without(f, Subtree(f, r.path) \ {r.path})]
         ELSE [ok |-> TRUE, fs |-> Without(f, Subtree(f, r.path))]
    ELSE [ok |-> FALSE, fs |-> f]

\* fs::remove_file
remove_file(f, wd, text) ==
    LET r == Resolve(f, wd, text) IN
    IF r.ok /\ IsFile(f, r.path)
    THEN [ok |-> TRUE, fs |-> Without(f, {r.path})]
    ELSE [ok |-> FALSE, fs |-> f]

\* File::create: create or truncate
file_create(f, wd, text) ==
    LET r == Resolve(f, wd, text) IN
    IF r.ok /\ ~IsDir(f, r.path)
    THEN [ok |-> TRUE, fs |-> With(f, r.path, FileNode(<<>>)), path |-> r.path]
    ELSE [ok |-> FALSE, fs |-> f, path |-> Root]

\* OpenOptions::new().create(true).append(true).open
open_append(f, wd, text) ==
    LET r == Resolve(f, wd, text) IN
    IF r.ok /\ ~IsDir(f, r.path)
    THEN [ok |-> TRUE,
          fs |-> IF r.path \in DOMAIN f THEN f ELSE With(f, r.path, FileNode(<<>>)),
          path |-> r.path]
    ELSE [ok |-> FALSE, fs |-> f, path |-> Root]

\* Write::write_all on an open file: the bytes go to the end of the file
write_all(f, p, text) == With(f, p, FileNode(f[p].content \o text))

\* fs::read_to_string
read_to_string(f, wd, text) ==
    LET r == Resolve(f, wd, text) IN
    IF r.ok /\ IsFile(f, r.path)
    THEN [ok |-> TRUE, content |-> f[r.path].content]
    ELSE [ok |-> FALSE, content |-> <<>>]

\* the orders in which read_dir may yield the entries of a directory, and
\* the entries S in such an order
Orders == {"asc", "desc"}
RECURSIVE Reverse(_)
Reverse(seq) == IF seq = <<>> THEN <<>> ELSE Reverse(Tail(seq)) \o <<Head(seq)>>
InOrder(S, order) == IF order = "asc" THEN SortNames(S) ELSE Reverse(SortNames(S))

\* Vec::sort_by_key(|e| e.file_name()) on entries with distinct names
sort_by_key(files) == SortNames({files[i] : i \in 1..Len(files)})

\* fs::read_dir: the entries of a directory, in no particular order
read_dir(f, wd, text) ==
    LET r == Resolve(f, wd, text) IN
    IF r.ok /\ IsDir(f, r.path)
    THEN [ok |-> TRUE, path |-> r.path,
          names |-> {q[Len(q)] : q \in Children(f, r.path)}]
    ELSE [ok |-> FALSE, path |-> Root, names |-> {}]

\* where path q ends up when the tree at src moves to dst
Moved(q, src, dst) ==
    IF IsPrefix(src, q) THEN dst \o SubSeq(q, Len(src) + 1, Len(q)) ELSE q

\* the working directory once its directory was replaced: no entry names it
Unlinked(wd) == Parent(wd) \o << <<>> >>

\* fs::rename (rename(2)): the working directory follows a moved directory,
\* and is left unlinked when an other directory is moved over it
rename(f, wd, source, dest) ==
    LET s == Resolve(f, wd, source)
        d == Resolve(f, wd, dest)
        no == [ok |-> FALSE, fs |-> f, cwd |-> wd] IN
    IF ~(s.ok /\ d.ok /\ s.path \in DOMAIN f) THEN no
    ELSE IF s.path = d.path THEN [ok |-> TRUE, fs |-> f, cwd |-> wd]
    ELSE IF s.path = Root \/ d.path = Root \/ IsPrefix(s.path, d.path) THEN no
    ELSE IF IsFile(f, s.path) /\ IsDir(f, d.path) THEN no
    ELSE IF IsDir(f, s.path) /\ IsFile(f, d.path) THEN no
    ELSE IF IsDir(f, s.path) /\ IsDir(f, d.path) /\ Children(f, d.path) # {} THEN no
    ELSE LET moving == Subtree(f, s.path)
             kept == Without(f, moving \cup {d.path})
             g == [q \in DOMAIN kept \cup {Moved(m, s.path, d.path) : m \in moving} |->
                      IF \E m \in moving : Moved(m, s.path, d.path) = q
                      THEN f[CHOOSE m \in moving : Moved(m, s.path, d.path) = q]
                      ELSE kept[q]]
         IN [ok |-> TRUE, fs |-> g,
             cwd |-> IF wd = d.path THEN Unlinked(wd)
                     ELSE Moved(wd, s.path, d.path)]

(***************************************************************************)
(* The builtins (commands.rs).  Each takes its argument tokens and the     *)
(* state st = [fs, cwd, stdin, rest] it runs in, where rest is what        *)
(* standard input still holds (read by cat alone), and returns its text or *)
(* its error together with the state it leaves.                            *)
(***************************************************************************)
NoError == [msg |-> "", arg |-> <<>>]
Error(m, a) == [msg |-> m, arg |-> a]

Ok(text, f, wd, si) ==
    [ok |-> TRUE, out |-> text, err |-> NoError, fs |-> f, cwd |-> wd,
     stdin |-> si, calls |-> <<>>]
\* a failure that also sends the process back to the home directory
Err_home(e, f, wd, si) ==
    [ok |-> FALSE, out |-> <<>>, err |-> e, fs |-> f, cwd |-> Home,
     stdin |-> si, calls |-> <<>>]
Err(e, f, wd, si) ==
    [ok |-> FALSE, out |-> <<>>, err |-> e, fs |-> f, cwd |-> wd,
     stdin |-> si, calls |-> <<>>]

\* Path::display of an absolute path
RECURSIVE Display(_)
Display(p) ==
    IF p = Root THEN <<"/">>
    ELSE IF Len(p) = 1 THEN <<"/">> \o p[1]
    ELSE Display(Parent(p)) \o <<"/">> \o p[Len(p)]

help_command(st) == Ok(<<"<help>">>, st.fs, st.cwd, st.stdin)

\* env::current_dir fails when the working directory no longer exists
pwd_command(st) ==
    IF IsDir(st.fs, st.cwd)
    THEN Ok(Display(st.cwd) \o <<"\n">>, st.fs, st.cwd, st.stdin)
    ELSE Err(Error("io", <<>>), st.fs, st.cwd, st.stdin)

\* cd that goes up one directory when it has no argument
cd_command_up(args, st) ==
    IF args = <<>>
    THEN IF IsDir(st.fs, Parent(st.cwd))
         THEN Ok(<<>>, st.fs, Parent(st.cwd), st.stdin)
         ELSE Err(Error("io", <<>>), st.fs, st.cwd, st.stdin)
    ELSE IF ~PathExists(st.fs, st.cwd, args[1])
         THEN Err(Error("cd: No such file or directory", args[1]), st.fs, st.cwd, st.stdin)
    ELSE IF ~PathIsDir(st.fs, st.cwd, args[1])
         THEN Err(Error("cd: Not a directory", args[1]), st.fs, st.cwd, st.stdin)
    ELSE Ok(<<>>, st.fs, Resolve(st.fs, st.cwd, args[1]).path, st.stdin)

\* cd without the is_dir check of line 64
cd_command_unchecked(args, st) ==
    IF args = <<>>
    THEN IF IsDir(st.fs, Home)
         THEN Ok(<<>>, st.fs, Home, st.stdin)
         ELSE Err(Error("io", <<>>), st.fs, st.cwd, st.stdin)
    ELSE IF ~PathExists(st.fs, st.cwd, args[1])
         THEN Err(Error("cd: No such file or directory", args[1]), st.fs, st.cwd, st.stdin)
    ELSE Ok(<<>>, st.fs, Resolve(st.fs, st.cwd, args[1]).path, st.stdin)

cd_command(args, st) ==
    IF args = <<>>
    THEN IF IsDir(st.fs, Home)
         THEN Ok(<<>>, st.fs, Home, st.stdin)
         ELSE Err(Error("io", <<>>), st.fs, st.cwd, st.stdin)
    ELSE IF ~PathExists(st.fs, st.cwd, args[1])
         THEN Err(Error("cd: No such file or directory", args[1]), st.fs, st.cwd, st.stdin)
    ELSE IF ~PathIsDir(st.fs, st.cwd, args[1])
         THEN Err(Error("cd: Not a directory", args[1]), st.fs, st.cwd, st.stdin)
    ELSE Ok(<<>>, st.fs, Resolve(st.fs, st.cwd, args[1]).path, st.stdin)

\* one line of ls for the entry at path q
LsLine(f, q, long_format) ==
    LET name == q[Len(q)] IN
    IF long_format
    THEN <<IF IsDir(f, q) THEN "d" ELSE "-", " ">>
         \o PadLeft(Digits(IF IsDir(f, q) THEN DirSize ELSE ByteLen(f[q].content)))
         \o <<" ">> \o name \o <<"\n">>
    ELSE name \o <<"\n">>

RECURSIVE LsLines(_, _, _, _, _)
LsLines(f, dir, names, show_all, long_format) ==
    IF names = <<>> THEN <<>>
    ELSE (IF ~show_all /\ StartsWithDot(Head(names))
          THEN <<>>
          ELSE LsLine(f, dir \o <<Head(names)>>, long_format))
         \o LsLines(f, dir, Tail(names), show_all, long_format)

\* ls without the sort of line 85: the entries in the order read_dir yields
ls_command_unsorted(args, st) ==
    LET show_all == \E i \in 1..Len(args) : args[i] = <<"-a">>
        long_format == \E i \in 1..Len(args) : args[i] = <<"-l">>
        path == IF \E i \in 1..Len(args) : ~StartsWithDash(args[i])
                THEN args[CHOOSE i \in 1..Len(args) :
                              /\ ~StartsWithDash(args[i])
                              /\ \A j \in 1..(i - 1) : StartsWithDash(args[j])]
                ELSE <<".">>
        entries == read_dir(st.fs, st.cwd, path)
    IN IF ~entries.ok THEN Err(Error("io", path), st.fs, st.cwd, st.stdin)
       ELSE Ok(LsLines(st.fs, entries.path, InOrder(entries.names, st.order),
                       show_all, long_format),
               st.fs, st.cwd, st.stdin)

ls_command(args, st) ==
    LET show_all == \E i \in 1..Len(args) : args[i] = <<"-a">>
        long_format == \E i \in 1..Len(args) : args[i] = <<"-l">>
        path == IF \E i \in 1..Len(args) : ~StartsWithDash(args[i])
                THEN args[CHOOSE i \in 1..Len(args) :
                              /\ ~StartsWithDash(args[i])
                              /\ \A j \in 1..(i - 1) : StartsWithDash(args[j])]
                ELSE <<".">>
        entries == read_dir(st.fs, st.cwd, path)
    IN IF ~entries.ok THEN Err(Error("io", path), st.fs, st.cwd, st.stdin)
       ELSE Ok(LsLines(st.fs, entries.path,
                       sort_by_key(InOrder(entries.names, st.order)),
                       show_all, long_format),
               st.fs, st.cwd, st.stdin)

\* the lines standard input still holds, each followed by a newline
RECURSIVE StdinText(_)
StdinText(lines) ==
    IF lines = <<>> THEN <<>>
    ELSE Head(lines) \o <<"\n">> \o StdinText(Tail(lines))

RECURSIVE CatFiles(_, _, _)
CatFiles(args, f, wd) ==
    IF args = <<>> THEN [ok |-> TRUE, out |-> <<>>, arg |-> <<>>]
    ELSE IF StartsWithDash(Head(args)) THEN CatFiles(Tail(args), f, wd)
    ELSE LET c == read_to_string(f, wd, Head(args)) IN
         IF ~c.ok THEN [ok |-> FALSE, out |-> <<>>, arg |-> Head(args)]
         ELSE LET more == CatFiles(Tail(args), f, wd) IN
              [ok |-> more.ok, out |-> c.content \o more.out, arg |-> more.arg]

\* a line of standard input that is not valid UTF-8: lines() yields an error
\* for it, after taking it from the stream
InvalidUtf8 == <<"<invalid utf-8>">>
Readable(lines) == \A i \in 1..Len(lines) : lines[i] # InvalidUtf8

\* lines 111-117: `line?` returns at the first line that cannot be read; the
\* text collected so far is dropped and the lines after it stay in the stream
cat_command(args, st) ==
    IF args = <<>>
    THEN IF st.stdin # "open"
         THEN Ok(<<>>, st.fs, st.cwd, st.stdin)
         ELSE IF Readable(st.rest)
         THEN Ok(StdinText(st.rest), st.fs, st.cwd, "eof")
         ELSE Err(Error("io", <<>>), st.fs, st.cwd, "open")
    ELSE LET r == CatFiles(args, st.fs, st.cwd) IN
         IF r.ok THEN Ok(r.out, st.fs, st.cwd, st.stdin)
         ELSE Err(Error("io", r.arg), st.fs, st.cwd, st.stdin)

echo_command(args, st) == Ok(JoinSpace(args) \o <<"\n">>, st.fs, st.cwd, st.stdin)

RECURSIVE MkdirLoop(_, _, _, _)
MkdirLoop(args, parents, f, wd) ==
    IF args = <<>> THEN [ok |-> TRUE, fs |-> f, arg |-> <<>>]
    ELSE IF StartsWithDash(Head(args)) THEN MkdirLoop(Tail(args), parents, f, wd)
    ELSE LET r == IF parents THEN create_dir_all(f, wd, Head(args))
                  ELSE create_dir(f, wd, Head(args)) IN
         IF r.ok THEN MkdirLoop(Tail(args), parents, r.fs, wd)
         ELSE [ok |-> FALSE, fs |-> r.fs, arg |-> Head(args)]

mkdir_command(args, st) ==
    LET parents == \E i \in 1..Len(args) : args[i] = <<"-p">>
        r == MkdirLoop(args, parents, st.fs, st.cwd) IN
    IF r.ok THEN Ok(<<>>, r.fs, st.cwd, st.stdin)
    ELSE Err(Error("io", r.arg), r.fs, st.cwd, st.stdin)

\* rmdir that goes on to the later operands after one has failed
RECURSIVE RmdirLoop_skipping(_, _, _)
RmdirLoop_skipping(args, f, wd) ==
    IF args = <<>> THEN [ok |-> TRUE, fs |-> f, arg |-> <<>>]
    ELSE IF StartsWithDash(Head(args)) THEN RmdirLoop_skipping(Tail(args), f, wd)
    ELSE LET r == remove_dir(f, wd, Head(args))
             rest == RmdirLoop_skipping(Tail(args), r.fs, wd) IN
         IF r.ok THEN rest
         ELSE [ok |-> FALSE, fs |-> rest.fs, arg |-> Head(args)]

RECURSIVE RmdirLoop(_, _, _)
RmdirLoop(args, f, wd) ==
    IF args = <<>> THEN [ok |-> TRUE, fs |-> f, arg |-> <<>>]
    ELSE IF StartsWithDash(Head(args)) THEN RmdirLoop(Tail(args), f, wd)
    ELSE LET r == remove_dir(f, wd, Head(args)) IN
         IF r.ok THEN RmdirLoop(Tail(args), r.fs, wd)
         ELSE [ok |-> FALSE, fs |-> r.fs, arg |-> Head(args)]

rmdir_command(args, st) ==
    LET r == RmdirLoop(args, st.fs, st.cwd) IN
    IF r.ok THEN Ok(<<>>, r.fs, st.cwd, st.stdin)
    ELSE Err(Error("io", r.arg), r.fs, st.cwd, st.stdin)

RECURSIVE TouchLoop(_, _, _)
TouchLoop(args, f, wd) ==
    IF args = <<>> THEN [ok |-> TRUE, fs |-> f, arg |-> <<>>]
    ELSE IF StartsWithDash(Head(args)) \/ PathExists(f, wd, Head(args))
         THEN TouchLoop(Tail(args), f, wd)
    ELSE LET r == file_create(f, wd, Head(args)) IN
         IF r.ok THEN TouchLoop(Tail(args), r.fs, wd)
         ELSE [ok |-> FALSE, fs |-> r.fs, arg |-> Head(args)]

touch_command(args, st) ==
    LET r == TouchLoop(args, st.fs, st.cwd) IN
    IF r.ok THEN Ok(<<>>, r.fs, st.cwd, st.stdin)
    ELSE Err(Error("io", r.arg), r.fs, st.cwd, st.stdin)

RECURSIVE RmLoop(_, _, _, _)
RmLoop(args, recursive, f, wd) ==
    IF args = <<>> THEN [ok |-> TRUE, fs |-> f, err |-> NoError]
    ELSE IF StartsWithDash(Head(args)) THEN RmLoop(Tail(args), recursive, f, wd)
    ELSE IF PathIsDir(f, wd, Head(args))
         THEN IF recursive
              THEN LET r == remove_dir_all(f, wd, Head(args)) IN
                   IF r.ok THEN RmLoop(Tail(args), recursive, r.fs, wd)
                   ELSE [ok |-> FALSE, fs |-> r.fs, err |-> Error("io", Head(args))]
              ELSE [ok |-> FALSE, fs |-> f, err |-> Error("rm: is a directory", Head(args))]
    ELSE LET r == remove_file(f, wd, Head(args)) IN
         IF r.ok THEN RmLoop(Tail(args), recursive, r.fs, wd)
         ELSE [ok |-> FALSE, fs |-> r.fs, err |-> Error("io", Head(args))]

rm_command(args, st) ==
    LET recursive == \E i \in 1..Len(args) : args[i] \in {<<"-r">>, <<"-R">>}
        r == RmLoop(args, recursive, st.fs, st.cwd) IN
    IF r.ok THEN Ok(<<>>, r.fs, st.cwd, st.stdin)
    ELSE Err(r.err, r.fs, st.cwd, st.stdin)

mv_command(args, st) ==
    IF Len(args) < 2
    THEN Err(Error("mv: missing destination file operand", <<>>), st.fs, st.cwd, st.stdin)
    ELSE LET r == rename(st.fs, st.cwd, args[1], args[2]) IN
         IF r.ok THEN Ok(<<>>, r.fs, r.cwd, st.stdin)
         ELSE Err(Error("io", args[1]), st.fs, st.cwd, st.stdin)

(***************************************************************************)
(* The shell (main.rs): dispatcher, redirection, pipe.                     *)
(***************************************************************************)
BuiltinNames ==
    {<<"help">>, <<"pwd">>, <<"cd">>, <<"ls">>, <<"cat">>, <<"echo">>,
     <<"mkdir">>, <<"rmdir">>, <<"touch">>, <<"rm">>, <<"mv">>}

\* a builtin's result, with the invocation that produced it: [name, args]
Invoked(command, args, r) ==
    [r EXCEPT !.calls = <<[name |-> command, args |-> args]>>]

\* a dispatcher whose default arm succeeds with no text
Dispatch_lenient(command, args, st) ==
    CASE command = <<"help">> -> Invoked(command, args, help_command(st))
      [] command = <<"pwd">> -> Invoked(command, args, pwd_command(st))
      [] command = <<"cd">> -> Invoked(command, args, cd_command(args, st))
      [] command = <<"ls">> -> Invoked(command, args, ls_command(args, st))
      [] command = <<"cat">> -> Invoked(command, args, cat_command(args, st))
      [] command = <<"echo">> -> Invoked(command, args, echo_command(args, st))
      [] command = <<"mkdir">> -> Invoked(command, args, mkdir_command(args, st))
      [] command = <<"rmdir">> -> Invoked(command, args, rmdir_command(args, st))
      [] command = <<"touch">> -> Invoked(command, args, touch_command(args, st))
      [] command = <<"rm">> -> Invoked(command, args, rm_command(args, st))
      [] command = <<"mv">> -> Invoked(command, args, mv_command(args, st))
      [] OTHER -> Ok(<<>>, st.fs, st.cwd, st.stdin)

\* the match of execute_single_command: the builtin named by the first token
Dispatch(command, args, st) ==
    CASE command = <<"help">> -> Invoked(command, args, help_command(st))
      [] command = <<"pwd">> -> Invoked(command, args, pwd_command(st))
      [] command = <<"cd">> -> Invoked(command, args, cd_command(args, st))
      [] command = <<"ls">> -> Invoked(command, args, ls_command(args, st))
      [] command = <<"cat">> -> Invoked(command, args, cat_command(args, st))
      [] command = <<"echo">> -> Invoked(command, args, echo_command(args, st))
      [] command = <<"mkdir">> -> Invoked(command, args, mkdir_command(args, st))
      [] command = <<"rmdir">> -> Invoked(command, args, rmdir_command(args, st))
      [] command = <<"touch">> -> Invoked(command, args, touch_command(args, st))
      [] command = <<"rm">> -> Invoked(command, args, rm_command(args, st))
      [] command = <<"mv">> -> Invoked(command, args, mv_command(args, st))
      [] OTHER -> Err(Error("Command not found", command), st.fs, st.cwd, st.stdin)

\* execute_single_command that hands the builtin all tokens, its name included
execute_parts_unsplit(parts, st) ==
    IF parts = <<>> THEN Ok(<<>>, st.fs, st.cwd, st.stdin)
    ELSE Dispatch(parts[1], parts, st)

\* execute_single_command on the tokens of its text
execute_parts(parts, st) ==
    IF parts = <<>> THEN Ok(<<>>, st.fs, st.cwd, st.stdin)
    ELSE Dispatch(parts[1], Tail(parts), st)

\* execute_single_command that rejects a text without tokens
execute_single_command_strict(text, st) ==
    IF SplitWhitespace(text) = <<>>
    THEN Err(Error("Empty command", <<>>), st.fs, st.cwd, st.stdin)
    ELSE execute_parts(SplitWhitespace(text), st)

execute_single_command(text, st) == execute_parts(SplitWhitespace(text), st)

\* execute_with_input without its cat case: every segment is dispatched
execute_with_input_dispatching(cmd, inp, st) ==
    IF SplitWhitespace(cmd) = <<>>
    THEN Err(Error("Empty command", <<>>), st.fs, st.cwd, st.stdin)
    ELSE execute_single_command(cmd, st)

\* execute_with_input whose cat case ignores the number of arguments
execute_with_input_anycat(cmd, inp, st) ==
    IF SplitWhitespace(cmd) = <<>>
    THEN Err(Error("Empty command", <<>>), st.fs, st.cwd, st.stdin)
    ELSE IF SplitWhitespace(cmd)[1] = <<"cat">>
         THEN Ok(inp, st.fs, st.cwd, st.stdin)
    ELSE execute_single_command(cmd, st)

execute_with_input(cmd, inp, st) ==
    LET parts == SplitWhitespace(cmd) IN
    IF parts = <<>>
    THEN Err(Error("Empty command", <<>>), st.fs, st.cwd, st.stdin)
    ELSE IF parts[1] = <<"cat">> /\ Len(parts) = 1
         THEN Ok(inp, st.fs, st.cwd, st.stdin)
    ELSE execute_single_command(cmd, st)

NoRedirect == [some |-> FALSE, file |-> <<>>, append |-> FALSE]
Redirect(file, append) == [some |-> TRUE, file |-> file, append |-> append]

\* parse_redirection that looks for the overwrite operator first
parse_redirection_overwrite_first(inp) ==
    LET p == Find(inp, <<">">>) IN
    IF p # 0
    THEN [cmd |-> trim(SubSeq(inp, 1, p - 1)),
          redirect |-> Redirect(trim(SubSeq(inp, p + 1, Len(inp))), FALSE)]
    ELSE [cmd |-> inp, redirect |-> NoRedirect]

parse_redirection(inp) ==
    LET pp == Find(inp, <<">", ">">>)
        p == Find(inp, <<">">>) IN
    IF pp # 0
    THEN [cmd |-> trim(SubSeq(inp, 1, pp - 1)),
          redirect |-> Redirect(trim(SubSeq(inp, pp + 2, Len(inp))), TRUE)]
    ELSE IF p # 0
    THEN [cmd |-> trim(SubSeq(inp, 1, p - 1)),
          redirect |-> Redirect(trim(SubSeq(inp, p + 1, Len(inp))), FALSE)]
    ELSE [cmd |-> inp, redirect |-> NoRedirect]

\* write_to_file once the target was opened (o): the content is written
write_opened(content, f, o) ==
    IF o.ok
    THEN [ok |-> TRUE, fs |-> write_all(o.fs, o.path, content), path |-> o.path]
    ELSE [ok |-> FALSE, fs |-> f, path |-> Root]

\* write_to_file that ignores its mode: the target is always truncated
write_to_file_truncating(content, filename, append, f, wd) ==
    write_opened(content, f, file_create(f, wd, filename))

write_to_file(content, filename, append, f, wd) ==
    write_opened(content, f,
                 IF append THEN open_append(f, wd, filename)
                 ELSE file_create(f, wd, filename))

\* a pipe test that gives way to a redirection operator in the line
has_pipe_unless_redirected(inp) == Contains(inp, "|") /\ ~Contains(inp, ">")

\* process_command, line 50: whether the line goes to process_pipe
has_pipe(inp) == Contains(inp, "|")

\* what a call of process_command leaves behind: result r of the command,
\* with the parse, the texts printed and the write_to_file calls made
Outcome(parsed, r, prints, writes) ==
    [ok |-> r.ok, err |-> r.err, fs |-> r.fs, cwd |-> r.cwd, stdin |-> r.stdin,
     calls |-> r.calls, out |-> r.out, cmd |-> parsed.cmd,
     redirect |-> parsed.redirect, ran |-> r.fs, printed |-> prints,
     writes |-> writes]

\* process_command, line 62: the output went through write_to_file, result w
Written(parsed, r, w) ==
    [Outcome(parsed, r, <<>>,
             <<[file |-> parsed.redirect.file, path |-> w.path,
                append |-> parsed.redirect.append, content |-> r.out,
                ok |-> w.ok]>>)
     EXCEPT !.ok = w.ok,
            !.err = IF w.ok THEN NoError ELSE Error("io", parsed.redirect.file),
            !.fs = w.fs]

\* process_command that prints the output it has written to the target
Deliver_printing(parsed, r) ==
    IF ~r.ok THEN Outcome(parsed, r, <<>>, <<>>)
    ELSE IF parsed.redirect.some
    THEN [Written(parsed, r,
                  write_to_file(r.out, parsed.redirect.file,
                                parsed.redirect.append, r.fs, r.cwd))
          EXCEPT !.printed = <<r.out>>]
    ELSE Outcome(parsed, r, <<r.out>>, <<>>)

\* process_command that opens the target whether or not the command failed
Deliver_eager(parsed, r) ==
    IF parsed.redirect.some
    THEN [Written(parsed, r,
                  write_to_file(r.out, parsed.redirect.file,
                                parsed.redirect.append, r.fs, r.cwd))
          EXCEPT !.ok = r.ok, !.err = r.err]
    ELSE IF ~r.ok THEN Outcome(parsed, r, <<>>, <<>>)
    ELSE Outcome(parsed, r, <<r.out>>, <<>>)

\* process_command, lines 58-65: the command returned r
Deliver(parsed, r) ==
    IF ~r.ok THEN Outcome(parsed, r, <<>>, <<>>)
    ELSE IF parsed.redirect.some
    THEN Written(parsed, r,
                 write_to_file(r.out, parsed.redirect.file,
                               parsed.redirect.append, r.fs, r.cwd))
    ELSE Outcome(parsed, r, <<r.out>>, <<>>)

\* process_command, lines 55-58: the line is parsed and its command executed
Execute(parsed, st) == Deliver(parsed, execute_single_command(parsed.cmd, st))

\* process_command on a line without a pipe (lines 54-67)
process_command(inp, st) == Execute(parse_redirection(inp), st)

\* process_pipe, line 99: the trimmed pieces between the pipe characters
RECURSIVE TrimEach(_)
TrimEach(pieces) ==
    IF pieces = <<>> THEN <<>>
    ELSE <<trim(Head(pieces))>> \o TrimEach(Tail(pieces))

pipe_commands(inp) == TrimEach(Split(inp, "|"))

(***************************************************************************)
(* The lines standard input may deliver, and the states the shell may be   *)
(* started in.                                                             *)
(***************************************************************************)
W(a) == <<a>>
Sp == <<" ">>

\* single commands
Cmds ==
    {W("ls"), W("cat"), W("pwd"), W("help"), W("echo"), W("cd"), W("foo"),
     <<"echo", " ", "hi">>, <<"echo", " ", "hi", " ", " ", "ho">>,
     <<"cat", " ", "f">>, <<"cat", " ", "f", " ", "g">>,
     <<"ls", " ", "-l">>, <<"ls", " ", "d">>,
     <<"cd", " ", "d">>, <<"cd", " ", "..">>,
     <<"mkdir", " ", "d">>, <<"mkdir", " ", "-p", " ", "d", "/", "d">>,
     <<"rmdir", " ", "d">>, <<"rmdir", " ", "..", "/", "d">>,
     <<"touch", " ", "g">>, <<"touch", " ", "g", " ", "d", " ", "f">>,
     <<"rm", " ", "f">>, <<"rm", " ", "-r", " ", "d">>,
     <<"mv", " ", "f", " ", "g">>, <<"mv", " ", "f">>,
     <<"mv", " ", "/", "d", " ", "/", "g">>,
     <<"exit", " ", "hi">>}

\* redirected lines: command, operator, target
RedirCmds ==
    {<<>>, W("ls"), W("cat"), W("pwd"), W("foo"), W("echo"), <<"echo", " ", "hi">>,
     <<"cat", " ", "f">>, <<"rm", " ", "f">>, <<"cd", " ", "d">>}
RedirOps == {<<">">>, <<">", ">">>}
Redirected ==
    {c \o op \o W("f") : c \in RedirCmds, op \in RedirOps}
    \cup {<<"echo", " ", "hi", " ">> \o op \o t : op \in RedirOps, t \in {<<>>, <<" ", "d">>, <<" ", "g">>}}
    \cup {<<"echo", " ", ">", " ", ">", ">", "f">>,
          <<"rm", " ", "f", " ", "g", ">", "f">>,
          <<">", "d">>, <<">">>,
          <<"echo", " ", "hi", ">", "f", " ", "g">>,
          <<"echo", ">", ">", ">", "f">>}

\* piped lines: every pipeline of up to MaxStages core segments, and pairs
CoreSegs == {<<>>, W("ls"), W("cat"), W("foo")}
FirstSegs ==
    {W("ls"), W("help"), <<"echo", " ", "hi">>, <<"touch", " ", "g">>,
     <<"cd", " ", "d">>, <<"mkdir", " ", "d">>, <<"cat", " ", "f">>}
SecondSegs ==
    {W("cat"), W("pwd"), W("ls"), W("foo"), <<"cat", " ", "f">>,
     <<"echo", " ", "hi">>, <<"echo", " ", ">", "f">>, <<"cat", " ", "-l">>}

RECURSIVE JoinPipe(_, _)
JoinPipe(segs, sep) ==
    IF Len(segs) = 1 THEN segs[1]
    ELSE segs[1] \o sep \o JoinPipe(Tail(segs), sep)

Piped ==
    UNION {{JoinPipe(segs, <<"|">>) : segs \in [1..n -> CoreSegs]} : n \in 2..MaxStages}
    \cup {a \o <<" ", "|">> \o b : a \in FirstSegs, b \in SecondSegs}

Blanks == {<<>>, Sp, <<" ", " ">>}
Exits == {W("exit"), W("quit"), <<" ", "exit", " ">>, W("EXIT")}

Lines == Cmds \cup Redirected \cup Piped \cup Blanks \cup Exits

\* what standard input may still hold when cat reads it to its end
StdinRests == {<<>>, <<<<"hi">>>>, <<<<"ls">>, <<"exit">>>>,
               <<<<"hi">>, <<"<invalid utf-8>">>, <<"ls">>>>}

\* filesystems the shell may be started in
D == <<"d">>
F == <<"f">>
EmptyFs == Root :> DirNode
SmallFs == (Root :> DirNode) @@ (<<F>> :> FileNode(<<"ho", "\n">>)) @@ (<<D>> :> DirNode)
Starts == {[fs |-> EmptyFs, cwd |-> Root],
           [fs |-> SmallFs, cwd |-> Root],
           [fs |-> SmallFs, cwd |-> <<D>>]}

(***************************************************************************)
(* The sequence of redirected commands to one target file that is under    *)
(* way: the file (the path write_to_file opened), the mode of each         *)
(* command, what the sequence should have left in the file (the outputs    *)
(* since the last Overwrite, after the content the sequence found), and    *)
(* whether no command since the last Overwrite changed the file itself.    *)
(***************************************************************************)
NoSeq ==
    [active |-> FALSE, target |-> <<>>, expect |-> <<>>, clean |-> TRUE,
     modes |-> <<>>]

\* what file f holds at path p: its content, or nothing when there is none
HeldAt(f, p) ==
    IF p \in DOMAIN f /\ IsFile(f, p) THEN <<f[p].content>> ELSE <<>>
PriorAt(f, p) == IF HeldAt(f, p) = <<>> THEN <<>> ELSE HeldAt(f, p)[1]

\* the sequence after process_command returned res from the state before;
\* w is the write_to_file call of res
SeqAfter(log, res, before, w) ==
    [active |-> TRUE,
     target |-> w.path,
     modes |-> (IF log.active /\ log.target = w.path THEN log.modes ELSE <<>>)
               \o <<IF w.append THEN "append" ELSE "overwrite">>,
     expect |-> IF ~w.append THEN res.out
                ELSE IF log.active /\ log.target = w.path
                THEN log.expect \o res.out
                ELSE PriorAt(before.fs, w.path) \o res.out,
     clean |-> IF ~w.append THEN TRUE
               ELSE /\ (log.active /\ log.target = w.path) => log.clean
                    /\ HeldAt(before.fs, w.path) = HeldAt(res.ran, w.path)]

SeqNext(log, res, before) ==
    IF res.ok /\ res.redirect.some
    THEN SeqAfter(log, res, before, res.writes[1])
    ELSE NoSeq

(***************************************************************************)
(* The read-eval-print loop (main) and process_pipe, one action per step.  *)
(***************************************************************************)
\* the state a command runs in, with what the environment decides: what
\* standard input still holds and the order in which read_dir yields entries
Env(rest, order) ==
    [fs |-> fs, cwd |-> cwd, stdin |-> stdin, rest |-> rest, order |-> order]
St(rest) == Env(rest, "asc")
\* the filesystem and the working directory at one moment
Snap(f, wd) == [fs |-> f, cwd |-> wd]

\* the invocations in calls, marked with the stage k that made them
RECURSIVE Stage(_, _)
Stage(calls, k) ==
    IF calls = <<>> THEN <<>>
    ELSE <<[stage |-> k, name |-> Head(calls).name, args |-> Head(calls).args]>>
         \o Stage(Tail(calls), k)

(***************************************************************************)
(* The cat program (crates/cat/src/main.rs).  Bytes are numbers; a file is *)
(* the sequence of its bytes, or NoFile where it cannot be opened.         *)
(***************************************************************************)
LF == 10
TAB == 9
SP == 32
LetterA == 97
NumberWidth == 6

RECURSIVE DigitBytes(_)
DigitBytes(n) ==
    IF n < 10 THEN <<48 + n>> ELSE DigitBytes(n \div 10) \o <<48 + (n % 10)>>
Spaces(k) == [i \in 1..k |-> SP]
\* format!("{:6}", n): right-aligned in NumberWidth columns, wider if need be
format_number(n) ==
    IF Len(DigitBytes(n)) >= NumberWidth THEN DigitBytes(n)
    ELSE Spaces(NumberWidth - Len(DigitBytes(n))) \o DigitBytes(n)

NumberModes == {"None", "All", "NonBlank"}

\* LineProcessor::new
LineProcessor_new(number_mode, show_all, squeeze_blank) ==
    [number_mode |-> number_mode, show_all |-> show_all,
     squeeze_blank |-> squeeze_blank, line_number |-> 0, last_was_blank |-> FALSE]

\* the shell has no LineProcessor
NoProcessor == LineProcessor_new("None", FALSE, FALSE)
NoArgs ==
    [number_lines |-> FALSE, number_nonblank |-> FALSE,
     show_all |-> FALSE, squeeze_blank |-> FALSE]
NoCat ==
    /\ processor = NoProcessor
    /\ reader = <<>>
    /\ linesRead = <<>>
    /\ catArgs = NoArgs
    /\ lineLog = <<>>
    /\ tool = NoTool

\* main with -n taking precedence over -b
number_mode_n_first(a) ==
    IF a.number_lines THEN "All"
    ELSE IF a.number_nonblank THEN "NonBlank" ELSE "None"

\* main, lines 35-41: -b overrides -n
number_mode(a) ==
    IF a.number_nonblank THEN "NonBlank"
    ELSE IF a.number_lines THEN "All" ELSE "None"

\* one byte as write_with_show_all writes it
show_byte(b) ==
    CASE b = TAB -> <<94, 73>>
      [] b = LF -> <<36>>
      [] b \in 0..31 /\ b # TAB /\ b # LF -> <<94, b + 64>>
      [] b = 127 -> <<94, 63>>
      [] b \in 128..255 -> <<77, 45, IF b >= 128 + 32 /\ b < 127 + 128 THEN b - 128 ELSE 63>>
      [] OTHER -> <<b>>

RECURSIVE write_with_show_all(_)
write_with_show_all(line) ==
    IF line = <<>> THEN <<>>
    ELSE show_byte(Head(line)) \o write_with_show_all(Tail(line))

is_blank(line) == line = <<>> \/ (Len(line) = 1 /\ line[1] = LF)

\* what process_line writes for a line it does not drop, given the number
\* the processor has reached
LineText(self, line) ==
    (CASE self.number_mode = "All" -> format_number(self.line_number) \o <<TAB>>
       [] self.number_mode = "NonBlank" ->
              IF is_blank(line) THEN Spaces(NumberWidth) \o <<TAB>>
              ELSE format_number(self.line_number) \o <<TAB>>
       [] OTHER -> <<>>)
    \o (IF self.show_all THEN write_with_show_all(line) ELSE line)
    \o <<LF>>

\* the squeeze step that never forgets a blank line it has seen
Counted_sticky(self, line) ==
    [self EXCEPT
        !.last_was_blank = self.last_was_blank \/ (self.squeeze_blank /\ is_blank(line)),
        !.line_number =
            IF self.number_mode = "All" \/ (self.number_mode = "NonBlank" /\ ~is_blank(line))
            THEN self.line_number + 1 ELSE self.line_number]

\* the processor after the squeeze step and the numbering step
Counted(self, line) ==
    [self EXCEPT
        !.last_was_blank = self.squeeze_blank /\ is_blank(line),
        !.line_number =
            IF self.number_mode = "All" \/ (self.number_mode = "NonBlank" /\ ~is_blank(line))
            THEN self.line_number + 1 ELSE self.line_number]

\* process_line that numbers a line before it decides to drop it
process_line_counting_dropped(self, line) ==
    IF self.squeeze_blank /\ is_blank(line) /\ self.last_was_blank
    THEN [self |-> Counted(self, line), out |-> <<>>]
    ELSE [self |-> Counted(self, line), out |-> <<LineText(Counted(self, line), line)>>]

\* LineProcessor::process_line: the processor it leaves and the lines written
process_line(self, line) ==
    IF self.squeeze_blank /\ is_blank(line) /\ self.last_was_blank
    THEN [self |-> self, out |-> <<>>]
    ELSE [self |-> Counted(self, line), out |-> <<LineText(Counted(self, line), line)>>]

\* reader.split(b'\n'): the next line of the bytes unread, and the bytes after it
HasLF(bytes) == \E i \in 1..Len(bytes) : bytes[i] = LF
FirstLF(bytes) == CHOOSE i \in 1..Len(bytes) : bytes[i] = LF /\ \A j \in 1..(i - 1) : bytes[j] # LF
NextLine(bytes) == IF HasLF(bytes) THEN SubSeq(bytes, 1, FirstLF(bytes) - 1) ELSE bytes
AfterLine(bytes) ==
    IF HasLF(bytes) THEN SubSeq(bytes, FirstLF(bytes) + 1, Len(bytes)) ELSE <<>>

Init ==
    /\ \E s \in Starts : fs = s.fs /\ cwd = s.cwd
    /\ pc = "prompt"
    /\ stdin = "open"
    /\ consumed = 0
    /\ input = <<>>
    /\ commands = <<>>
    /\ idx = 0
    /\ output = <<>>
    /\ outs = <<>>
    /\ snaps = <<>>
    /\ cmdText = <<>>
    /\ redirect = NoRedirect
    /\ dispatched = <<>>
    /\ stdout = <<>>
    /\ stderr = NoError
    /\ written = <<>>
    /\ seqlog = NoSeq
    /\ NoCat

\* main, lines 18-24: the prompt is printed and a line is read
CanRead ==
    /\ pc = "prompt"
    /\ IsDir(fs, cwd)
    /\ stdin = "open"

\* reading line l: it and its newline are consumed
Consume(l) ==
    /\ consumed + Len(l) + 1 <= MaxInput
    /\ consumed' = consumed + Len(l) + 1

\* the line read, trimmed (line 26)
Trimmed(l) == trim(l \o <<"\n">>)
\* a sentinel test that ignores case
IsSentinel_anycase(inp) == inp \in {<<"exit">>, <<"quit">>, <<"EXIT">>}
IsSentinel(inp) == inp = <<"exit">> \/ inp = <<"quit">>

\* the trimmed lines by the branch of the loop they take (lines 28, 33, 50)
BlankLines == {l \in Lines : Trimmed(l) = <<>>}
ExitLines == {l \in Lines : IsSentinel(Trimmed(l))}
CommandLines == Lines \ (BlankLines \cup ExitLines)
SingleLines == {l \in CommandLines : ~has_pipe(Trimmed(l))}
PipeLines == {l \in CommandLines : has_pipe(Trimmed(l))}

\* what standard input holds matters to a segment that reads it: cat alone
\* with no arguments
RestsFor(seg) ==
    IF SplitWhitespace(seg) = <<<<"cat">>>> THEN StdinRests ELSE {<<>>}
\* the order of read_dir matters to a segment that lists a directory: ls
OrdersFor(seg) ==
    IF SplitWhitespace(seg) # <<>> /\ SplitWhitespace(seg)[1] = <<"ls">>
    THEN Orders ELSE {"asc"}

\* a turn that does not enter process_pipe
NoPipe ==
    /\ commands' = <<>>
    /\ idx' = 0
    /\ outs' = <<>>
    /\ snaps' = <<>>

\* a loop that reports a blank line as an empty command
ReadBlank_reporting ==
    /\ CanRead
    /\ \E l \in BlankLines : Consume(l) /\ input' = Trimmed(l)
    /\ NoPipe
    /\ output' = <<>>
    /\ dispatched' = <<>>
    /\ stdout' = <<>>
    /\ stderr' = Error("Empty command", <<>>)
    /\ written' = <<>>
    /\ UNCHANGED <<toolVars, pc, fs, cwd, stdin, cmdText, redirect, seqlog>>

\* lines 28-30: a blank line, and the loop continues
ReadBlank ==
    /\ CanRead
    /\ \E l \in BlankLines : Consume(l) /\ input' = Trimmed(l)
    /\ NoPipe
    /\ output' = <<>>
    /\ dispatched' = <<>>
    /\ stdout' = <<>>
    /\ stderr' = NoError
    /\ written' = <<>>
    /\ UNCHANGED <<toolVars, pc, fs, cwd, stdin, cmdText, redirect, seqlog>>

\* read_line returns Ok(0) at the end of input: the line is empty, and the
\* loop continues
ReadEof ==
    /\ pc = "prompt"
    /\ IsDir(fs, cwd)
    /\ stdin' = "eof"
    /\ input' = <<>>
    /\ NoPipe
    /\ output' = <<>>
    /\ dispatched' = <<>>
    /\ stdout' = <<>>
    /\ stderr' = NoError
    /\ written' = <<>>
    /\ UNCHANGED <<toolVars, pc, fs, cwd, consumed, cmdText, redirect, seqlog>>

\* line 18: env::current_dir()? fails, main returns the error
CwdFails ==
    /\ pc = "prompt"
    /\ ~IsDir(fs, cwd)
    /\ pc' = "crashed"
    /\ UNCHANGED <<toolVars, fs, cwd, stdin, consumed, input, commands, idx, output, outs,
                   snaps, cmdText, redirect, dispatched, stdout, stderr, written,
                   seqlog>>

\* line 24: read_line(..)? fails, main returns the error
ReadFails ==
    /\ CanRead
    /\ pc' = "crashed"
    /\ UNCHANGED <<toolVars, fs, cwd, stdin, consumed, input, commands, idx, output, outs,
                   snaps, cmdText, redirect, dispatched, stdout, stderr, written,
                   seqlog>>

\* lines 33-36: the exit sentinel
ReadExit ==
    /\ CanRead
    /\ \E l \in ExitLines : Consume(l) /\ input' = Trimmed(l)
    /\ NoPipe
    /\ output' = <<>>
    /\ pc' = "exited"
    /\ dispatched' = <<>>
    /\ stdout' = <<<<"Goodbye!", "\n">>>>
    /\ stderr' = NoError
    /\ written' = <<>>
    /\ UNCHANGED <<toolVars, fs, cwd, stdin, cmdText, redirect, seqlog>>

\* lines 39-42 with process_command on a line without a pipe
Single ==
    /\ CanRead
    /\ \E l \in SingleLines :
       /\ Consume(l)
       /\ \E rest \in RestsFor(parse_redirection(Trimmed(l)).cmd) :
          \E order \in OrdersFor(parse_redirection(Trimmed(l)).cmd) :
          \E res \in {process_command(Trimmed(l), Env(rest, order))} :
        /\ input' = Trimmed(l)
        /\ output' = res.out
        /\ cmdText' = res.cmd
        /\ redirect' = res.redirect
        /\ fs' = res.fs
        /\ cwd' = res.cwd
        /\ stdin' = res.stdin
        /\ dispatched' = Stage(res.calls, 1)
        /\ stdout' = res.printed
        /\ stderr' = res.err
        /\ written' = res.writes
        /\ seqlog' = SeqNext(seqlog, res, St(rest))
    /\ NoPipe
    /\ pc' = "prompt"
    /\ UNCHANGED toolVars

\* process_pipe without the ? of lines 105 and 108: an error is not propagated
pipe_next_unchecked(r, k, n) ==
    IF k < n THEN "continue" ELSE "print"

\* process_pipe, lines 105-112: what follows stage k of n with result r
pipe_next(r, k, n) ==
    IF ~r.ok THEN "abort"
    ELSE IF k < n THEN "continue"
    ELSE "print"

\* lines 39-42 with process_command on a line with a pipe: process_pipe
\* splits the line and executes the first segment
PipeStart ==
    /\ CanRead
    /\ \E l \in PipeLines :
       /\ Consume(l)
       /\ \E cs \in {pipe_commands(Trimmed(l))} :
          \E rest \in RestsFor(cs[1]) :
          \E order \in OrdersFor(cs[1]) :
          \E r \in {execute_single_command(cs[1], Env(rest, order))} :
          \E next \in {pipe_next(r, 1, Len(cs))} :
        /\ input' = Trimmed(l)
        /\ commands' = cs
        /\ IF Len(cs) < 2
           THEN /\ stderr' = Error("Invalid pipe syntax", <<>>)
                /\ pc' = "prompt"
                /\ idx' = 0
                /\ output' = <<>>
                /\ outs' = <<>>
                /\ snaps' = <<Snap(fs, cwd)>>
                /\ dispatched' = <<>>
                /\ stdout' = <<>>
                /\ UNCHANGED <<fs, cwd, stdin>>
           ELSE /\ fs' = r.fs
                /\ cwd' = r.cwd
                /\ stdin' = r.stdin
                /\ dispatched' = Stage(r.calls, 1)
                /\ idx' = 1
                /\ output' = r.out
                /\ outs' = IF r.ok THEN <<r.out>> ELSE <<>>
                /\ snaps' = IF r.ok THEN <<Snap(fs, cwd), Snap(r.fs, r.cwd)>>
                             ELSE <<Snap(fs, cwd)>>
                /\ stderr' = r.err
                /\ stdout' = IF next = "print" THEN <<r.out>> ELSE <<>>
                /\ pc' = IF next = "continue" THEN "pipe" ELSE "prompt"
    /\ cmdText' = <<>>
    /\ redirect' = NoRedirect
    /\ written' = <<>>
    /\ seqlog' = NoSeq
    /\ UNCHANGED toolVars

\* process_pipe that undoes the earlier stages of the line when a stage fails
PipeStage_rollback ==
    /\ pc = "pipe"
    /\ \E k \in {idx + 1} :
       \E rest \in RestsFor(commands[k]) :
       \E order \in OrdersFor(commands[k]) :
       \E r \in {execute_with_input(commands[k], output, Env(rest, order))} :
       \E next \in {pipe_next(r, k, Len(commands))} :
        /\ fs' = IF r.ok THEN r.fs ELSE snaps[1].fs
        /\ cwd' = IF r.ok THEN r.cwd ELSE snaps[1].cwd
        /\ stdin' = r.stdin
        /\ dispatched' = dispatched \o Stage(r.calls, k)
        /\ idx' = k
        /\ output' = IF r.ok THEN r.out ELSE output
        /\ outs' = IF r.ok THEN Append(outs, r.out) ELSE outs
        /\ snaps' = IF r.ok THEN Append(snaps, Snap(r.fs, r.cwd)) ELSE snaps
        /\ stderr' = r.err
        /\ stdout' = IF next = "print" THEN <<r.out>> ELSE <<>>
        /\ pc' = IF next = "continue" THEN "pipe" ELSE "prompt"
    /\ UNCHANGED <<toolVars, consumed, input, commands, cmdText, redirect, written, seqlog>>

\* process_pipe that prints the text of every stage as it completes
PipeStage_printing ==
    /\ pc = "pipe"
    /\ \E k \in {idx + 1} :
       \E rest \in RestsFor(commands[k]) :
       \E order \in OrdersFor(commands[k]) :
       \E r \in {execute_with_input(commands[k], output, Env(rest, order))} :
       \E next \in {pipe_next(r, k, Len(commands))} :
        /\ fs' = r.fs
        /\ cwd' = r.cwd
        /\ stdin' = r.stdin
        /\ dispatched' = dispatched \o Stage(r.calls, k)
        /\ idx' = k
        /\ output' = IF r.ok THEN r.out ELSE output
        /\ outs' = IF r.ok THEN Append(outs, r.out) ELSE outs
        /\ snaps' = IF r.ok THEN Append(snaps, Snap(r.fs, r.cwd)) ELSE snaps
        /\ stderr' = r.err
        /\ stdout' = IF r.ok THEN Append(stdout, r.out) ELSE stdout
        /\ pc' = IF next = "continue" THEN "pipe" ELSE "prompt"
    /\ UNCHANGED <<toolVars, consumed, input, commands, cmdText, redirect, written, seqlog>>

\* process_pipe, lines 107-112: the next segment, and the print after the last
PipeStage ==
    /\ pc = "pipe"
    /\ \E k \in {idx + 1} :
       \E rest \in RestsFor(commands[k]) :
       \E order \in OrdersFor(commands[k]) :
       \E r \in {execute_with_input(commands[k], output, Env(rest, order))} :
       \E next \in {pipe_next(r, k, Len(commands))} :
        /\ fs' = r.fs
        /\ cwd' = r.cwd
        /\ stdin' = r.stdin
        /\ dispatched' = dispatched \o Stage(r.calls, k)
        /\ idx' = k
        /\ output' = IF r.ok THEN r.out ELSE output
        /\ outs' = IF r.ok THEN Append(outs, r.out) ELSE outs
        /\ snaps' = IF r.ok THEN Append(snaps, Snap(r.fs, r.cwd)) ELSE snaps
        /\ stderr' = r.err
        /\ stdout' = IF next = "print" THEN <<r.out>> ELSE <<>>
        /\ pc' = IF next = "continue" THEN "pipe" ELSE "prompt"
    /\ UNCHANGED <<toolVars, consumed, input, commands, cmdText, redirect, written, seqlog>>

Next ==
    \/ ReadBlank
    \/ ReadEof
    \/ ReadFails
    \/ CwdFails
    \/ ReadExit
    \/ Single
    \/ PipeStart
    \/ PipeStage

Spec == Init /\ [][Next]_vars

(***************************************************************************)
(* parse_redirection as a function of its argument alone: every line over  *)
(* the atoms below, up to MaxParseLen atoms, is parsed.                    *)
(***************************************************************************)
ParseAtoms == {"echo", " ", ">", "f"}
ParseLines == UNION {[1..n -> ParseAtoms] : n \in 0..MaxParseLen}

ParseInit ==
    /\ pc = "parse"
    /\ input \in ParseLines
    /\ fs = EmptyFs
    /\ cwd = Root
    /\ stdin = "open"
    /\ consumed = 0
    /\ commands = <<>>
    /\ idx = 0
    /\ output = <<>>
    /\ outs = <<>>
    /\ snaps = <<>>
    /\ cmdText = <<>>
    /\ redirect = NoRedirect
    /\ dispatched = <<>>
    /\ stdout = <<>>
    /\ stderr = NoError
    /\ written = <<>>
    /\ seqlog = NoSeq
    /\ NoCat

Parse ==
    /\ pc = "parse"
    /\ pc' = "parsed"
    /\ cmdText' = parse_redirection(input).cmd
    /\ redirect' = parse_redirection(input).redirect
    /\ UNCHANGED <<toolVars, fs, cwd, stdin, consumed, input, commands, idx, output, outs,
                   snaps, dispatched, stdout, stderr, written, seqlog>>

ParseNext == Parse

SpecParse == ParseInit /\ [][ParseNext]_vars

(***************************************************************************)
(* A builtin invoked twice in a row: every invocation below, from every    *)
(* start below, is dispatched, and then dispatched again in the state the  *)
(* first run left.                                                         *)
(***************************************************************************)
NestedFs == (<<D, D>> :> DirNode) @@ SmallFs
TwiceStarts ==
    Starts \cup {[fs |-> NestedFs, cwd |-> Root],
                 [fs |-> NestedFs, cwd |-> <<D>>],
                 [fs |-> NestedFs, cwd |-> <<D, D>>]}
TwiceCmds ==
    {<<"cd", " ", "/", "d">>, <<"cd", " ", ".">>, <<"cd", " ", "/">>,
     <<"mkdir", " ", "d", "/", "d">>, <<"mkdir", " ", "g", " ", "g", "/", "g">>,
     <<"rmdir", " ", "d", "/", "d">>, <<"rmdir", " ", ".">>,
     <<"rm", " ", "-r", " ", "..", "/", "d">>, <<"rm", " ", "d">>,
     <<"rm", " ", "f", " ", "f">>, <<"touch", " ", "f">>,
     <<"mv", " ", "d", " ", "g">>, <<"mv", " ", "f", " ", "d">>,
     <<"mv", " ", "d", " ", "f">>, <<"mv", " ", "f", " ", "f">>,
     <<"mv", " ", "..", "/", "f", " ", "f">>,
     <<"mv", " ", "d", " ", "d", "/", "g">>,
     <<"mv", " ", "..", "/", "d", " ", "/", "g">>,
     <<"mv", " ", "/", "d", "/", "d", " ", "/", "g">>,
     <<"ls", " ", "-a">>, <<"cat", " ", "d">>,
     <<"mkdir", " ", "g", " ", "f", " ", "h">>,
     <<"mkdir", " ", "-p", " ", "g", "/", "..", "/", "f", "/", "g", " ", "h">>,
     <<"rmdir", " ", "g", " ", "d">>, <<"rmdir", " ", "d", "/", "d", " ", "d", " ", "d">>,
     <<"touch", " ", "g", " ", "f", "/", "g", " ", "h">>,
     <<"rm", " ", "f", " ", "d", " ", "g">>,
     <<"rm", " ", "-r", " ", "/", " ", "f">>, <<"rm", " ", "-r", " ", "d", " ", ".">>,
     <<"cd", " ", "f">>, <<"cd", " ", "g">>, <<"cd", " ", "d", " ", "g">>,
     <<"cd", " ", "f", " ", "d">>, <<"cd", " ", "..", "/", "f">>}
Invocations ==
    {SplitWhitespace(c) : c \in {x \in Cmds \cup TwiceCmds :
                                    SplitWhitespace(x)[1] \in BuiltinNames}}

TwiceInit ==
    /\ pc = "invoke"
    /\ \E s \in TwiceStarts : fs = s.fs /\ cwd = s.cwd /\ snaps = <<s>>
    /\ \E parts \in Invocations :
           dispatched = <<[stage |-> 1, name |-> parts[1], args |-> Tail(parts)]>>
    /\ stdin = "open"
    /\ consumed = 0
    /\ input = <<>>
    /\ commands = <<>>
    /\ idx = 0
    /\ output = <<>>
    /\ outs = <<>>
    /\ cmdText = <<>>
    /\ redirect = NoRedirect
    /\ stdout = <<>>
    /\ stderr = NoError
    /\ written = <<>>
    /\ seqlog = NoSeq
    /\ NoCat

\* the invocation is dispatched in the current state
Invoke ==
    /\ pc \in {"invoke", "once"}
    /\ \E r \in {Dispatch(dispatched[1].name, dispatched[1].args, St(<<>>))} :
        /\ fs' = r.fs
        /\ cwd' = r.cwd
        /\ stdin' = r.stdin
        /\ output' = r.out
        /\ stderr' = r.err
        /\ snaps' = Append(snaps, Snap(r.fs, r.cwd))
    /\ idx' = idx + 1
    /\ pc' = IF pc = "invoke" THEN "once" ELSE "twice"
    /\ UNCHANGED <<toolVars, consumed, input, commands, outs, cmdText, redirect,
                   dispatched, stdout, written, seqlog>>

TwiceNext == Invoke

SpecTwice == TwiceInit /\ [][TwiceNext]_vars

(***************************************************************************)
(* The cat program run on one or two files with any combination of -n, -b, *)
(* -A and -s.                                                              *)
(***************************************************************************)
MaxFileLen == 2
NoFile == <<0>>
CatBytes == {LF, TAB, LetterA}
FileTexts == UNION {[1..n -> CatBytes] : n \in 0..MaxFileLen}
InputFiles == FileTexts \cup {NoFile}
FileLists ==
    {<<a>> : a \in InputFiles} \cup {<<a, b>> : a \in FileTexts, b \in InputFiles}

CatInit ==
    /\ pc = "file"
    /\ reader \in FileLists
    /\ catArgs \in [number_lines : BOOLEAN, number_nonblank : BOOLEAN,
                show_all : BOOLEAN, squeeze_blank : BOOLEAN]
    /\ processor = LineProcessor_new(number_mode(catArgs), catArgs.show_all,
                                   catArgs.squeeze_blank)
    /\ linesRead = <<>>
    /\ lineLog = <<>>
    /\ tool = NoTool
    /\ stdout = <<>>
    /\ fs = EmptyFs
    /\ cwd = Root
    /\ stdin = "open"
    /\ consumed = 0
    /\ input = <<>>
    /\ commands = <<>>
    /\ idx = 0
    /\ output = <<>>
    /\ outs = <<>>
    /\ snaps = <<>>
    /\ cmdText = <<>>
    /\ redirect = NoRedirect
    /\ dispatched = <<>>
    /\ stderr = NoError
    /\ written = <<>>
    /\ seqlog = NoSeq

\* main: the next file is opened
OpenInput ==
    /\ pc = "file"
    /\ reader # <<>>
    /\ Head(reader) # NoFile
    /\ pc' = "lines"
    /\ linesRead' = Append(linesRead, 0)
    /\ UNCHANGED <<processor, reader, catArgs, lineLog, stdout, shellVars>>

\* main: the next file cannot be opened, and main returns the error
OpenFails ==
    /\ pc = "file"
    /\ reader # <<>>
    /\ Head(reader) = NoFile
    /\ pc' = "failed"
    /\ UNCHANGED <<catVars, stdout, shellVars>>

\* process_file: one line is read and processed
ProcessLine ==
    /\ pc = "lines"
    /\ Head(reader) # <<>>
    /\ \E r \in {process_line(processor, NextLine(Head(reader)))} :
        /\ processor' = r.self
        /\ stdout' = stdout \o r.out
    /\ reader' = <<AfterLine(Head(reader))>> \o Tail(reader)
    /\ linesRead' = [linesRead EXCEPT ![Len(linesRead)] = @ + 1]
    /\ lineLog' = Append(lineLog, NextLine(Head(reader)))
    /\ UNCHANGED <<pc, catArgs, shellVars>>

\* process_file: the file is at its end
EndOfFile ==
    /\ pc = "lines"
    /\ Head(reader) = <<>>
    /\ reader' = Tail(reader)
    /\ pc' = "file"
    /\ UNCHANGED <<processor, linesRead, catArgs, lineLog, stdout, shellVars>>

\* main: every file was processed
CatDone ==
    /\ pc = "file"
    /\ reader = <<>>
    /\ pc' = "done"
    /\ UNCHANGED <<catVars, stdout, shellVars>>

CatNext ==
    \/ OpenInput
    \/ OpenFails
    \/ ProcessLine
    \/ EndOfFile
    \/ CatDone

SpecCat == CatInit /\ [][CatNext]_vars

(***************************************************************************)
(* The standalone mkdir program (crates/mkdir/src/main.rs), run on one or  *)
(* two paths with any combination of -p and -v.                            *)
(***************************************************************************)
\* create_directory: whether it returned Ok, the filesystem it leaves and
\* what it printed
create_directory(path, create_parents, verbose, f, wd) ==
    IF PathExists(f, wd, path)
    THEN [ok |-> create_parents, fs |-> f, out |-> <<>>]
    ELSE LET r == IF create_parents THEN create_dir_all(f, wd, path)
                  ELSE create_dir(f, wd, path) IN
         [ok |-> r.ok, fs |-> r.fs,
          out |-> IF r.ok /\ verbose
                  THEN <<[msg |-> "created directory", arg |-> path]>> ELSE <<>>]

MkdirPaths ==
    {<<"d">>, <<"f">>, <<"g">>, <<"g", "/", "g">>, <<"d", "/", "g">>,
     <<"f", "/", "g">>, <<"/", "d">>, <<".">>, <<>>}
MkdirLists == {<<a>> : a \in MkdirPaths} \cup {<<a, b>> : a, b \in MkdirPaths}

MkdirInit ==
    /\ pc = "mkdir"
    /\ \E s \in TwiceStarts : fs = s.fs /\ cwd = s.cwd
    /\ \E parents \in BOOLEAN, verbose \in BOOLEAN, directories \in MkdirLists :
           tool = [name |-> "mkdir", parents |-> parents, verbose |-> verbose,
                   directories |-> directories, called |-> FALSE,
                   path |-> <<>>, ok |-> TRUE, before |-> fs]
    /\ stdout = <<>>
    /\ processor = NoProcessor
    /\ reader = <<>>
    /\ linesRead = <<>>
    /\ catArgs = NoArgs
    /\ lineLog = <<>>
    /\ stdin = "open"
    /\ consumed = 0
    /\ input = <<>>
    /\ commands = <<>>
    /\ idx = 0
    /\ output = <<>>
    /\ outs = <<>>
    /\ snaps = <<>>
    /\ cmdText = <<>>
    /\ redirect = NoRedirect
    /\ dispatched = <<>>
    /\ stderr = NoError
    /\ written = <<>>
    /\ seqlog = NoSeq

\* the variables the standalone programs leave alone
idleVars == <<catVars, stdin, consumed, input, commands, idx, output, outs, snaps,
              cmdText, redirect, dispatched, stderr, written, seqlog>>

\* main: create_directory is called for the next path; an error ends main
MkdirCreate ==
    /\ pc = "mkdir"
    /\ tool.directories # <<>>
    /\ \E r \in {create_directory(Head(tool.directories), tool.parents, tool.verbose,
                                  fs, cwd)} :
        /\ fs' = r.fs
        /\ stdout' = stdout \o r.out
        /\ pc' = IF r.ok THEN "mkdir" ELSE "failed"
        /\ tool' = [tool EXCEPT !.directories = Tail(tool.directories),
                                !.called = TRUE,
                                !.path = Head(tool.directories),
                                !.ok = r.ok,
                                !.before = fs]
    /\ UNCHANGED <<cwd, idleVars>>

\* main: every path was created
MkdirDone ==
    /\ pc = "mkdir"
    /\ tool.directories = <<>>
    /\ pc' = "done"
    /\ UNCHANGED <<fs, cwd, stdout, tool, idleVars>>

MkdirNext ==
    \/ MkdirCreate
    \/ MkdirDone

SpecMkdir == MkdirInit /\ [][MkdirNext]_vars

(***************************************************************************)
(* The standalone mv program (crates/mv/src/main.rs), run on one or two    *)
(* sources and a destination with any combination of -n and -v.            *)
(***************************************************************************)
NoName == [ok |-> FALSE, name |-> <<>>]
\* Path::components without the separators and the "." that Path drops
NormalComps(text) == SelectSeq(Split(text, "/"), LAMBDA c : c # <<>> /\ c # <<".">>)
\* Path::file_name: the last component, unless the path ends in ".." or has none
file_name(text) ==
    LET cs == NormalComps(text) IN
    IF cs = <<>> \/ cs[Len(cs)] \in {<<"..">>, <<".", ".">>} THEN NoName
    ELSE [ok |-> TRUE, name |-> cs[Len(cs)]]
\* Path::join of a relative name
join(dir, name) ==
    IF dir = <<>> THEN name
    ELSE IF dir[Len(dir)] = "/" THEN dir \o name
    ELSE dir \o <<"/">> \o name

\* move_file: whether it returned Ok, the filesystem and working directory
\* it leaves and what it printed
RECURSIVE move_file(_, _, _, _, _, _)
move_file(source, destination, no_clobber, verbose, f, wd) ==
    IF ~PathExists(f, wd, source)
    THEN [ok |-> FALSE, fs |-> f, cwd |-> wd, out |-> <<>>]
    ELSE IF PathExists(f, wd, destination) /\ no_clobber
         THEN [ok |-> TRUE, fs |-> f, cwd |-> wd, out |-> <<>>]
    ELSE IF /\ PathExists(f, wd, destination)
            /\ PathIsDir(f, wd, destination)
            /\ ~PathIsDir(f, wd, source)
         THEN IF ~file_name(source).ok
              THEN [ok |-> FALSE, fs |-> f, cwd |-> wd, out |-> <<>>]
              ELSE move_file(source, join(destination, file_name(source).name),
                             no_clobber, verbose, f, wd)
    ELSE LET r == rename(f, wd, source, destination) IN
         [ok |-> r.ok, fs |-> r.fs, cwd |-> r.cwd,
          out |-> IF r.ok /\ verbose
                  THEN <<[msg |-> "->", arg |-> <<source, destination>>]>> ELSE <<>>]

\* a filesystem where the name of a file is taken by a directory under d
ShadowFs == (<<D, F>> :> DirNode) @@ SmallFs
MvStarts == TwiceStarts \cup {[fs |-> ShadowFs, cwd |-> Root]}
MvPaths ==
    {<<"f">>, <<"d">>, <<"g">>, <<"..">>, <<"/", "f">>, <<"d", "/", "d">>, <<".">>}
MvSources == {<<a>> : a \in MvPaths} \cup {<<a, b>> : a, b \in MvPaths}
MvDestinations == MvPaths \cup {<<"d", "/", "g">>}

MvInit ==
    /\ pc = "mv"
    /\ \E s \in MvStarts : fs = s.fs /\ cwd = s.cwd
    /\ \E no_clobber \in BOOLEAN, verbose \in BOOLEAN,
          source \in MvSources, destination \in MvDestinations :
           tool = [name |-> "mv", no_clobber |-> no_clobber, verbose |-> verbose,
                   source |-> source, destination |-> destination,
                   called |-> FALSE, from |-> <<>>, to |-> <<>>, ok |-> TRUE,
                   before |-> Snap(fs, cwd)]
    /\ stdout = <<>>
    /\ processor = NoProcessor
    /\ reader = <<>>
    /\ linesRead = <<>>
    /\ catArgs = NoArgs
    /\ lineLog = <<>>
    /\ stdin = "open"
    /\ consumed = 0
    /\ input = <<>>
    /\ commands = <<>>
    /\ idx = 0
    /\ output = <<>>
    /\ outs = <<>>
    /\ snaps = <<>>
    /\ cmdText = <<>>
    /\ redirect = NoRedirect
    /\ dispatched = <<>>
    /\ stderr = NoError
    /\ written = <<>>
    /\ seqlog = NoSeq

\* the call move_file(from, to, ..) made in the current state, and its result
Moving(from, to, left, next) ==
    \E r \in {move_file(from, to, tool.no_clobber, tool.verbose, fs, cwd)} :
        /\ fs' = r.fs
        /\ cwd' = r.cwd
        /\ stdout' = stdout \o r.out
        /\ pc' = IF r.ok THEN next ELSE "failed"
        /\ tool' = [tool EXCEPT !.source = left, !.called = TRUE, !.from = from,
                                !.to = to, !.ok = r.ok, !.before = Snap(fs, cwd)]

\* main, one source: move_file(source, destination)
MoveSingle ==
    /\ pc = "mv"
    /\ Len(tool.source) = 1
    /\ Moving(tool.source[1], tool.destination, <<>>, "done")
    /\ UNCHANGED idleVars

\* main, several sources: the destination is not an existing directory
TargetNotDirectory ==
    /\ pc = "mv"
    /\ Len(tool.source) > 1
    /\ ~PathIsDir(fs, cwd, tool.destination)
    /\ pc' = "failed"
    /\ UNCHANGED <<fs, cwd, stdout, tool, idleVars>>

\* main, several sources: the destination is a directory, the loop starts
TargetDirectory ==
    /\ pc = "mv"
    /\ Len(tool.source) > 1
    /\ PathIsDir(fs, cwd, tool.destination)
    /\ pc' = "moving"
    /\ UNCHANGED <<fs, cwd, stdout, tool, idleVars>>

\* main, several sources: the next source has no file name
InvalidSource ==
    /\ pc = "moving"
    /\ tool.source # <<>>
    /\ ~file_name(Head(tool.source)).ok
    /\ pc' = "failed"
    /\ UNCHANGED <<fs, cwd, stdout, tool, idleVars>>

\* main, several sources: the next source is moved under the destination
MoveNext ==
    /\ pc = "moving"
    /\ tool.source # <<>>
    /\ file_name(Head(tool.source)).ok
    /\ Moving(Head(tool.source),
              join(tool.destination, file_name(Head(tool.source)).name),
              Tail(tool.source), "moving")
    /\ UNCHANGED idleVars

\* main, several sources: every source was moved
MvDone ==
    /\ pc = "moving"
    /\ tool.source = <<>>
    /\ pc' = "done"
    /\ UNCHANGED <<fs, cwd, stdout, tool, idleVars>>

MvNext ==
    \/ MoveSingle
    \/ TargetNotDirectory
    \/ TargetDirectory
    \/ InvalidSource
    \/ MoveNext
    \/ MvDone

SpecMv == MvInit /\ [][MvNext]_vars

(***************************************************************************)
(* Properties of piped lines.                                              *)
(***************************************************************************)
\* the line holds a pipe character; the segment is cat with no arguments;
\* the segment holds no token at all
IsPiped(inp) == Contains(inp, "|")
BareCat(seg) == SplitWhitespace(seg) = <<<<"cat">>>>
EmptySeg(seg) == SplitWhitespace(seg) = <<>>
\* the positions of dispatched at which stage k invoked a builtin
StagesOf(k) == {i \in 1..Len(dispatched) : dispatched[i].stage = k}
\* every stage of the piped line was executed and returned a text
AllStagesOk == idx = Len(commands) /\ Len(outs) = idx

\* C1: in a piped line every executed stage after the first whose segment is
\* cat with no arguments returns the text of its predecessor unchanged and
\* invokes no builtin; and when all stages after the first are such and the
\* first succeeded, the text printed is exactly the text of the first stage.
C1_PassThrough ==
    IsPiped(input) =>
        /\ \A k \in 2..idx :
               BareCat(commands[k]) =>
                   /\ k <= Len(outs)
                   /\ outs[k] = outs[k - 1]
                   /\ StagesOf(k) = {}
        /\ (AllStagesOk /\ \A k \in 2..Len(commands) : BareCat(commands[k]))
               => stdout = <<outs[1]>>

\* a line X | cat | cat was executed and printed the non-empty text of X
C1_Witness ==
    /\ IsPiped(input)
    /\ Len(commands) = 3
    /\ BareCat(commands[2]) /\ BareCat(commands[3])
    /\ AllStagesOk
    /\ outs[1] # <<>>
    /\ stdout = <<outs[1]>>
    /\ StagesOf(1) # {}

\* C2: a stage after the first that is not cat with no arguments returns what
\* execute_single_command returns for its segment in the filesystem and
\* working directory the stage starts in, whatever text its predecessor
\* left; when it is the last stage that text is what is printed.  (A segment
\* without tokens returns no text: the stage fails.)
C2_Discard ==
    [][(pc = "pipe" /\ ~BareCat(commands[idx + 1])) =>
         \E alone \in {execute_single_command(commands[idx + 1], St(<<>>))} :
            /\ idx' = idx + 1
            /\ ~EmptySeg(commands[idx + 1]) => (alone.ok <=> stderr' = NoError)
            /\ stderr' = NoError =>
                   /\ alone.ok
                   /\ output' = alone.out
                   /\ outs' = Append(outs, alone.out)
                   /\ fs' = alone.fs /\ cwd' = alone.cwd
                   /\ (idx' = Len(commands) => stdout' = <<alone.out>>)
      ]_vars

\* a two-stage line X | Y, Y not cat alone, printed the text of Y although
\* X had returned another, non-empty text
C2_Witness ==
    /\ IsPiped(input)
    /\ Len(commands) = 2
    /\ AllStagesOk
    /\ ~BareCat(commands[2])
    /\ outs[1] # <<>>
    /\ outs[2] # outs[1]
    /\ outs[2] # <<>>
    /\ stdout = <<outs[2]>>

\* a step of the loop that executes a stage of a piped line
StageStep == IsPiped(input') /\ (pc = "pipe" \/ consumed' # consumed)

\* C3: the stages of a piped line are executed one per step in the order of
\* the line: each step executes the stage after the last executed one and
\* invokes at most one builtin, for that stage; when the stage returns an
\* error the error is reported, nothing is printed and the loop is back at
\* the prompt, so that no later stage of the line is executed; the pipeline
\* goes on only after a stage that succeeded and was not the last.
C3_Sequential ==
    [][StageStep =>
         \E before \in {IF pc = "pipe" THEN dispatched ELSE <<>>} :
            /\ idx' = (IF pc = "pipe" THEN idx ELSE 0) + 1
            /\ \/ dispatched' = before
               \/ /\ Len(dispatched') = Len(before) + 1
                  /\ SubSeq(dispatched', 1, Len(before)) = before
                  /\ dispatched'[Len(dispatched')].stage = idx'
            /\ stderr' # NoError => (pc' = "prompt" /\ stdout' = <<>>)
            /\ pc' = "pipe" => (stderr' = NoError /\ idx' < Len(commands'))
            /\ pc' \in {"pipe", "prompt"}
      ]_vars

\* the second stage of a line of three failed: the first stage had invoked
\* its builtin, the third never ran, and the loop is at the prompt
C3_Witness ==
    /\ IsPiped(input)
    /\ Len(commands) = 3
    /\ idx = 2
    /\ stderr # NoError
    /\ StagesOf(1) # {}
    /\ StagesOf(3) = {}
    /\ pc = "prompt"

\* the pieces between the pipe characters of the line, and whether one of
\* them holds nothing but whitespace
HasEmptySegment(inp) ==
    \E i \in 1..Len(Split(inp, "|")) : trim(Split(inp, "|")[i]) = <<>>

\* C4: a line with a pipe character one of whose segments is empty after
\* trimming is rejected when the pipeline is built: the line fails with an
\* error, no stage is left to run and no builtin of the line is invoked.
C4_EmptySegmentRejected ==
    (IsPiped(input) /\ HasEmptySegment(input)) =>
        /\ dispatched = <<>>
        /\ pc # "pipe"
        /\ stderr # NoError

\* a line whose first segment is empty ran to its end without any error and
\* printed the text of the builtin of its second segment
C4_Witness ==
    /\ IsPiped(input)
    /\ EmptySeg(commands[1])
    /\ AllStagesOk
    /\ stderr = NoError
    /\ StagesOf(2) # {}
    /\ stdout = <<outs[2]>>
    /\ outs[2] # <<>>

\* some argument handed to a builtin holds the character >
GtDispatched ==
    \E i \in 1..Len(dispatched) :
        \E j \in 1..Len(dispatched[i].args) : Contains(dispatched[i].args[j], ">")

\* C5: for a line with a pipe character no redirection is extracted,
\* write_to_file is never called, every builtin invoked gets the tokens of
\* its segment, > and >> included, and when all stages succeed the text of
\* the last stage is printed.
C5_PipeExcludesRedirect ==
    IsPiped(input) =>
        /\ redirect = NoRedirect
        /\ written = <<>>
        /\ \A i \in 1..Len(dispatched) :
               <<dispatched[i].name>> \o dispatched[i].args
                   = SplitWhitespace(commands[dispatched[i].stage])
        /\ AllStagesOk => stdout = <<outs[Len(outs)]>>

\* a piped line with a > in its last segment ran to its end: the > went to
\* the builtin, whose text, > included, was printed, and no file was written
C5_Witness ==
    /\ IsPiped(input)
    /\ Contains(input, ">")
    /\ AllStagesOk
    /\ GtDispatched
    /\ stdout = <<outs[Len(outs)]>>
    /\ Contains(stdout[1], ">")
    /\ written = <<>>

(***************************************************************************)
(* Properties of redirection.                                              *)
(***************************************************************************)
\* the append operator, the overwrite operator at position p of the line
AppendAt(inp, p) == p + 1 <= Len(inp) /\ inp[p] = ">" /\ inp[p + 1] = ">"
OverwriteAt(inp, p) == inp[p] = ">"

\* C6: parse_redirection of a line that holds >> returns the trimmed text
\* before the first >> and, in mode Append, the trimmed text after it; of a
\* line that holds no >> but a >, the trimmed text before the first > and, in
\* mode Overwrite, the trimmed text after it; of any other line, the line
\* and no redirection.
C6_ParseRedirection ==
    pc = "parsed" =>
        IF \E p \in 1..Len(input) : AppendAt(input, p)
        THEN \A p \in 1..Len(input) :
                 (AppendAt(input, p) /\ \A q \in 1..(p - 1) : ~AppendAt(input, q))
                 => /\ cmdText = trim(SubSeq(input, 1, p - 1))
                    /\ redirect = [some |-> TRUE, append |-> TRUE,
                                   file |-> trim(SubSeq(input, p + 2, Len(input)))]
        ELSE IF \E p \in 1..Len(input) : OverwriteAt(input, p)
        THEN \A p \in 1..Len(input) :
                 (OverwriteAt(input, p) /\ \A q \in 1..(p - 1) : ~OverwriteAt(input, q))
                 => /\ cmdText = trim(SubSeq(input, 1, p - 1))
                    /\ redirect = [some |-> TRUE, append |-> FALSE,
                                   file |-> trim(SubSeq(input, p + 1, Len(input)))]
        ELSE cmdText = input /\ ~redirect.some

\* a line with >> between a command and a target, blanks around both, was
\* parsed in mode Append
C6_Witness ==
    /\ pc = "parsed"
    /\ redirect.some /\ redirect.append
    /\ cmdText # <<>>
    /\ redirect.file # <<>>
    /\ Len(cmdText) + Len(redirect.file) + 2 < Len(input)

\* C7: whenever a line without a pipe character holds a >, a redirection is
\* extracted, the command text that is executed holds no >, and no argument
\* of the builtin invoked holds one.
C7_EveryGtIsOperator ==
    (~IsPiped(input) /\ Contains(input, ">")) =>
        /\ redirect.some
        /\ ~Contains(cmdText, ">")
        /\ ~GtDispatched

\* a line without a pipe character was executed and a > reached its builtin
C7_Witness ==
    /\ ~IsPiped(input)
    /\ redirect.some
    /\ stderr = NoError
    /\ GtDispatched

\* what the target of the sequence of redirected commands holds now
TargetText == HeldAt(fs, seqlog.target)

\* C8 as stated: after any sequence of successful redirected commands to one
\* target path the file holds the outputs written since the last Overwrite,
\* in order (after the content the sequence found if none was an Overwrite).
C8_AnySequence ==
    seqlog.active => TargetText = <<seqlog.expect>>

\* C8: the same, for the sequences in which no command after the most
\* recent Overwrite itself changes the target file.
C8_RedirectSequence ==
    (seqlog.active /\ seqlog.clean) => TargetText = <<seqlog.expect>>

\* two Appends of non-empty outputs in a row to one target
C8_Witness ==
    /\ seqlog.active /\ seqlog.clean
    /\ seqlog.modes = <<"append", "append">>
    /\ output # <<>>
    /\ Len(seqlog.expect) >= 2 * Len(output)
    /\ TargetText = <<seqlog.expect>>

(***************************************************************************)
(* Properties of single commands.                                          *)
(***************************************************************************)
\* the last line read went to process_command and holds no pipe character
SingleTurn == input # <<>> /\ ~IsSentinel(input) /\ ~IsPiped(input)

\* C9: when a line without a pipe succeeds, its text went to exactly one
\* place: with a redirection, one write_to_file call wrote it to the target
\* and nothing was printed; without, it was printed and no file was written.
C9_OneSink ==
    (SingleTurn /\ stderr = NoError) =>
        IF redirect.some
        THEN /\ stdout = <<>>
             /\ Len(written) = 1
             /\ written[1].ok
             /\ written[1].file = redirect.file
             /\ written[1].content = output
             /\ IsFile(fs, written[1].path)
        ELSE /\ stdout = <<output>>
             /\ written = <<>>

\* a redirected command with a non-empty text succeeded
C9_Witness ==
    /\ SingleTurn
    /\ stderr = NoError
    /\ redirect.some
    /\ output # <<>>
    /\ stdout = <<>>
    /\ Len(written) = 1
    /\ written[1].content = output

\* C10: for a line that is not blank, not exit or quit, holds no | and no >,
\* and whose first token names a builtin, exactly one builtin is invoked,
\* once: the one the first token names, with the remaining tokens in order.
C10_SingleDispatch ==
    (/\ SingleTurn
     /\ ~Contains(input, ">")
     /\ SplitWhitespace(input)[1] \in BuiltinNames) =>
        dispatched = <<[stage |-> 1, name |-> SplitWhitespace(input)[1],
                        args |-> Tail(SplitWhitespace(input))]>>

\* a builtin was invoked with more than one argument
C10_Witness ==
    /\ SingleTurn
    /\ ~Contains(input, ">")
    /\ Len(dispatched) = 1
    /\ dispatched[1].name \in BuiltinNames
    /\ Len(dispatched[1].args) >= 2

(***************************************************************************)
(* Properties of errors and of the loop.                                   *)
(***************************************************************************)
\* the segment has a first token and it is none of the builtin names
UnknownCommand(seg) ==
    /\ SplitWhitespace(seg) # <<>>
    /\ SplitWhitespace(seg)[1] \notin BuiltinNames
\* a step of the loop that reads a line without a pipe and executes it
SingleStep == consumed' # consumed /\ SingleTurn'

\* C11: a segment whose first token is none of the builtin names fails with
\* the error "Command not found" carrying that token, invokes no builtin and
\* leaves the filesystem and the working directory as they were; nothing is
\* printed or written for it.  This holds for the command of a line without
\* a pipe and for every stage of a piped line, exit and quit included.
C11_CommandNotFound ==
    [][/\ (SingleStep /\ UnknownCommand(cmdText')) =>
              /\ stderr' = [msg |-> "Command not found",
                            arg |-> SplitWhitespace(cmdText')[1]]
              /\ dispatched' = <<>>
              /\ stdout' = <<>>
              /\ written' = <<>>
              /\ fs' = fs /\ cwd' = cwd
       /\ (StageStep /\ UnknownCommand(commands'[idx'])) =>
              /\ stderr' = [msg |-> "Command not found",
                            arg |-> SplitWhitespace(commands'[idx'])[1]]
              /\ \A i \in 1..Len(dispatched') : dispatched'[i].stage # idx'
              /\ stdout' = <<>>
              /\ fs' = fs /\ cwd' = cwd
      ]_vars

\* the line exit hi was executed: command not found, carrying exit
C11_Witness ==
    /\ SingleTurn
    /\ SplitWhitespace(input)[1] = <<"exit">>
    /\ stderr = [msg |-> "Command not found", arg |-> <<"exit">>]
    /\ dispatched = <<>>
    /\ pc = "prompt"

\* C12: when stage k >= 2 of a piped line fails, stages 1..k-1 had all
\* completed, the filesystem and the working directory are those the last of
\* them left (changed only by what the failing stage itself did before it
\* failed: nothing for an unknown command or an empty segment), no stage
\* after k invoked a builtin, and the pipeline is over.
C12_NoRollback ==
    (IsPiped(input) /\ stderr # NoError /\ idx >= 2) =>
        /\ Len(snaps) = idx
        /\ \E failed \in {execute_with_input(commands[idx], outs[idx - 1],
                             [fs |-> snaps[idx].fs, cwd |-> snaps[idx].cwd,
                              stdin |-> stdin, rest |-> <<>>,
                              order |-> "asc"])} :
               /\ ~failed.ok
               /\ fs = failed.fs /\ cwd = failed.cwd
        /\ (UnknownCommand(commands[idx]) \/ EmptySeg(commands[idx]))
               => Snap(fs, cwd) = snaps[idx]
        /\ \A i \in 1..Len(dispatched) : dispatched[i].stage <= idx
        /\ pc # "pipe"

\* the second stage of a line failed after the first had changed the
\* filesystem or the working directory: the change is still there
C12_Witness ==
    /\ IsPiped(input)
    /\ stderr # NoError
    /\ idx = 2
    /\ Len(commands) >= 2
    /\ snaps[2] # snaps[1]
    /\ Snap(fs, cwd) = snaps[2]
    /\ pc = "prompt"

\* C13: whatever lines were executed, failing or not, the loop can start its
\* next turn: at the top of the loop the working directory can be read
\* (line 18), so that the prompt is printed and the next line is read; and
\* main never returns an error for another reason than a failing read.
C13_ErrorsRecovered ==
    /\ pc = "prompt" => IsDir(fs, cwd)
    /\ pc = "crashed" => IsDir(fs, cwd)

\* main returned an error although no read failed and no sentinel was read:
\* the last line removed the working directory
C13_Witness ==
    /\ pc = "crashed"
    /\ ~IsDir(fs, cwd)
    /\ ~IsSentinel(input)
    /\ \E i \in 1..Len(dispatched) : dispatched[i].name = <<"rmdir">>

\* C14: a turn of the loop that finds the input at its end (it reads
\* nothing, and the input is exhausted) ends the loop: the loop is in a
\* terminal state afterwards instead of at the prompt again.
C14_EndOfInputTerminates ==
    [][(pc = "prompt" /\ consumed' = consumed /\ stdin' = "eof")
           => pc' \in {"exited", "crashed"}
      ]_vars

\* the loop has read the end of the input after some lines and is at the
\* prompt again, the empty line taken for a blank one
C14_Witness ==
    /\ stdin = "eof"
    /\ pc = "prompt"
    /\ input = <<>>
    /\ consumed > 0
    /\ stderr = NoError

\* C15: a turn that reads a line whose trimmed text is exactly exit or quit
\* ends the loop (Goodbye! is printed) without invoking a builtin, reporting
\* an error or changing the filesystem or the working directory; once the
\* loop has ended nothing happens any more; and the turn of any other line
\* (EXIT, exit hi, ...) leaves the loop running.
C15_ExitSentinel ==
    [][/\ pc # "exited"
       /\ consumed' # consumed =>
              IF input' \in {<<"exit">>, <<"quit">>}
              THEN /\ pc' = "exited"
                   /\ dispatched' = <<>>
                   /\ stderr' = NoError
                   /\ fs' = fs /\ cwd' = cwd
              ELSE pc' \in {"prompt", "pipe"}
       /\ pc' = "exited" => input' \in {<<"exit">>, <<"quit">>}
      ]_vars

\* the loop has ended on a line that was exit with blanks around it
C15_Witness ==
    /\ pc = "exited"
    /\ input = <<"exit">>
    /\ consumed >= 4
    /\ dispatched = <<>>
    /\ stdout = <<<<"Goodbye!", "\n">>>>

\* C16: a turn that reads a line that is empty after trimming invokes no
\* builtin, reports no error, prints and writes nothing, leaves the
\* filesystem and the working directory as they were, and leaves the loop
\* at the prompt, where the working directory can still be read.
C16_BlankLine ==
    [][(consumed' # consumed /\ input' = <<>>) =>
           /\ dispatched' = <<>>
           /\ stderr' = NoError
           /\ stdout' = <<>>
           /\ written' = <<>>
           /\ fs' = fs /\ cwd' = cwd
           /\ pc' = "prompt"
           /\ IsDir(fs', cwd')
      ]_vars

\* a blank line was read after other lines, in a filesystem that is not
\* the empty one
C16_Witness ==
    /\ input = <<>>
    /\ consumed >= 5
    /\ stdin = "open"
    /\ pc = "prompt"
    /\ stderr = NoError
    /\ dispatched = <<>>
    /\ fs # EmptyFs

(***************************************************************************)
(* Properties of the working directory and of the builtins.                *)
(***************************************************************************)
\* the builtin invocations made by the step: those of the stage executed
\* inside a pipeline, those of the line read otherwise
StepCalls ==
    {i \in 1..Len(dispatched') :
        IF pc = "pipe" THEN dispatched'[i].stage = idx'
        ELSE consumed' # consumed}
CdInStep == \E i \in StepCalls : dispatched'[i].name = <<"cd">>
\* the step invoked mv from or onto the working directory or a directory
\* above it
RenamesCwd ==
    \E i \in StepCalls :
        /\ dispatched'[i].name = <<"mv">>
        /\ Len(dispatched'[i].args) >= 2
        /\ \E k \in 1..2 :
              /\ Resolve(fs, cwd, dispatched'[i].args[k]).ok
              /\ IsPrefix(Resolve(fs, cwd, dispatched'[i].args[k]).path, cwd)

SingleAgrees(rest, order) ==
    \E r \in {process_command(input', Env(rest, order))} :
        /\ r.printed = stdout'
        /\ r.err = stderr'
        /\ r.fs = fs' /\ r.cwd = cwd'
\* the same for the stage of a piped line the step executed
StageAgrees(rest, order) ==
    \E r \in {IF pc = "pipe"
              THEN execute_with_input(commands'[idx'], output, Env(rest, order))
              ELSE execute_single_command(commands'[1], Env(rest, order))} :
        /\ r.err = stderr'
        /\ r.ok => r.out = output'
        /\ r.fs = fs' /\ r.cwd = cwd'

\* C18 as stated: what a line prints or reports and the filesystem and
\* working directory it leaves are determined by the line and the
\* filesystem and working directory it starts in: they are the same
\* whatever standard input holds and whatever order read_dir yields.
C18_Deterministic ==
    [][/\ SingleStep =>
              \A rest \in StdinRests : \A order \in Orders : SingleAgrees(rest, order)
       /\ StageStep =>
              \A rest \in StdinRests : \A order \in Orders : StageAgrees(rest, order)
      ]_vars

\* C18: they are determined by the line, the filesystem, the working
\* directory and what standard input still holds, whatever order read_dir
\* yields; and standard input matters only to cat without arguments as the
\* command of a line without a pipe or as the first stage of a piped line.
C18_DeterministicGivenInput ==
    [][/\ SingleStep =>
              IF BareCat(cmdText')
              THEN \E rest \in StdinRests : \A order \in Orders :
                       SingleAgrees(rest, order)
              ELSE \A rest \in StdinRests : \A order \in Orders :
                       SingleAgrees(rest, order)
       /\ StageStep =>
              IF pc # "pipe" /\ BareCat(commands'[1])
              THEN \E rest \in StdinRests : \A order \in Orders :
                       StageAgrees(rest, order)
              ELSE \A rest \in StdinRests : \A order \in Orders :
                       StageAgrees(rest, order)
      ]_vars

\* ls listed a directory with more than one entry, in the order of the names
C18_Witness ==
    /\ SingleTurn
    /\ Len(dispatched) = 1
    /\ dispatched[1].name = <<"ls">>
    /\ stderr = NoError
    /\ Len(output) >= 4
    /\ stdout = <<output>>
    /\ output[1] = "d" /\ output[3] = "f"

\* the invocation is cd with a path argument that is not absolute
RelativeCd ==
    /\ dispatched[1].name = <<"cd">>
    /\ dispatched[1].args # <<>>
    /\ dispatched[1].args[1][1] # "/"

\* the invocation is mv from a path that is not absolute
RelativeMv ==
    /\ dispatched[1].name = <<"mv">>
    /\ dispatched[1].args # <<>>
    /\ dispatched[1].args[1][1] # "/"

C20_Numbered ==
    processor.number_mode = "All" =>
        /\ processor.line_number = Len(stdout)
        /\ \A k \in 1..Len(stdout) :
               SubSeq(stdout[k], 1, 7) = <<SP, SP, SP, SP, SP, 48 + k, TAB>>

\* with -n and -s, two files were read, a blank line was dropped, and a line
\* of the second file was written with the number that follows the first's
C20_Witness ==
    /\ pc = "done"
    /\ processor.number_mode = "All"
    /\ processor.squeeze_blank
    /\ Len(linesRead) = 2
    /\ linesRead[1] >= 1
    /\ linesRead[2] >= 1
    /\ linesRead[1] + linesRead[2] > Len(stdout)
    /\ Len(stdout) >= 2
    /\ stdout[Len(stdout)] = <<SP, SP, SP, SP, SP, 48 + Len(stdout), TAB, LetterA, LF>>

\* the number of written lines among the first k that are not blank, under -b
NonBlankUpTo(k) == Cardinality({j \in 1..k : Len(stdout[j]) > NumberWidth + 2})

\* C21: with -b, given alone or together with -n, a written blank line
\* carries six spaces and a tab in place of a number and leaves the counter
\* alone, and the non-blank lines carry 1, 2, 3, ... in order; without -s,
\* the blank written lines are the blank input lines.
C21_NonBlank ==
    catArgs.number_nonblank =>
        /\ processor.line_number = NonBlankUpTo(Len(stdout))
        /\ \A k \in 1..Len(stdout) :
               SubSeq(stdout[k], 1, 7) =
                   IF Len(stdout[k]) = NumberWidth + 2
                   THEN <<SP, SP, SP, SP, SP, SP, TAB>>
                   ELSE <<SP, SP, SP, SP, SP, 48 + NonBlankUpTo(k), TAB>>
        /\ ~catArgs.squeeze_blank =>
               /\ Len(stdout) = Len(lineLog)
               /\ \A k \in 1..Len(stdout) :
                      (Len(stdout[k]) = NumberWidth + 2) <=> (lineLog[k] = <<>>)

\* with -b and -n together, a blank line was written without a number
\* between the lines numbered 1 and 2
C21_Witness ==
    /\ pc = "done"
    /\ catArgs.number_nonblank
    /\ catArgs.number_lines
    /\ ~catArgs.show_all
    /\ lineLog = <<<<LetterA>>, <<>>, <<LetterA>>>>
    /\ stdout = << <<SP, SP, SP, SP, SP, 49, TAB, LetterA, LF>>,
                   <<SP, SP, SP, SP, SP, SP, TAB, LF>>,
                   <<SP, SP, SP, SP, SP, 50, TAB, LetterA, LF>> >>

\* the input lines that squeeze-blank keeps: every line but a blank one that
\* follows a blank one
KeptLines ==
    {i \in 1..Len(lineLog) : lineLog[i] # <<>> \/ i = 1 \/ lineLog[i - 1] # <<>>}
KeptRank(i) == Cardinality({j \in KeptLines : j <= i})
\* the length of what precedes the line's text in a written line
PrefixLen == IF processor.number_mode = "None" THEN 0 ELSE NumberWidth + 1
OutBody(k) == SubSeq(stdout[k], PrefixLen + 1, Len(stdout[k]))

\* C22: with -s, no two adjacent written lines are blank, and the written
\* lines are, in input order, every non-blank input line and the first line
\* of every run of blank input lines, the runs being taken over all files.
C22_Squeezed ==
    catArgs.squeeze_blank =>
        /\ Len(stdout) = Cardinality(KeptLines)
        /\ \A i \in KeptLines :
               OutBody(KeptRank(i)) =
                   (IF catArgs.show_all THEN write_with_show_all(lineLog[i]) ELSE lineLog[i])
                   \o <<LF>>
        /\ \A k \in 1..(Len(stdout) - 1) :
               ~(OutBody(k) = <<LF>> /\ OutBody(k + 1) = <<LF>>)

\* with -s, a run of blank lines that spans two files was written once, and
\* a later blank line after a non-blank one was written again
C22_Witness ==
    /\ pc = "done"
    /\ catArgs.squeeze_blank
    /\ Len(linesRead) = 2
    /\ \E i \in 1..(Len(lineLog) - 1) :
           /\ i = linesRead[1]
           /\ lineLog[i] = <<>>
           /\ lineLog[i + 1] = <<>>
    /\ Len(stdout) < Len(lineLog)
    /\ \E k \in 1..Len(stdout) : OutBody(k) # <<LF>>

\* C23: create_directory returns Ok only if the path is a directory
\* afterwards; called on a path that exists, it returns an error without -p
\* and Ok with -p, and changes nothing either way.
C23_CreateDirectory ==
    (tool.name = "mkdir" /\ tool.called) =>
        /\ tool.ok => PathIsDir(fs, cwd, tool.path)
        /\ PathExists(tool.before, cwd, tool.path) =>
               /\ tool.ok = tool.parents
               /\ fs = tool.before

\* create_directory with -p returned Ok on the path of a regular file
C23_Witness ==
    /\ tool.name = "mkdir"
    /\ tool.called
    /\ tool.parents
    /\ tool.ok
    /\ tool.path = <<"f">>
    /\ IsFile(fs, <<F>>)
    /\ cwd = Root

\* the source of the last move_file call, as it resolved when the call was made
MovedFrom == Resolve(tool.before.fs, tool.before.cwd, tool.from)
\* where the claim expects the source of the last call to be afterwards
MovedTo ==
    Resolve(tool.before.fs, tool.before.cwd,
            IF /\ PathIsDir(tool.before.fs, tool.before.cwd, tool.to)
               /\ ~PathIsDir(tool.before.fs, tool.before.cwd, tool.from)
               /\ file_name(tool.from).ok
            THEN join(tool.to, file_name(tool.from).name) ELSE tool.to)
SourceExisted == PathExists(tool.before.fs, tool.before.cwd, tool.from)

\* C24: a move_file call that returns Ok for an existing source leaves no
\* entry at the source path and the source's node at the destination (at
\* destination/<file name> when the destination was a directory and the
\* source was not); a call whose source does not exist returns an error and
\* changes nothing.
C24_MoveFile ==
    (tool.name = "mv" /\ tool.called) =>
        /\ (tool.ok /\ SourceExisted) =>
               /\ MovedFrom.path \notin DOMAIN fs
               /\ MovedTo.ok
               /\ MovedTo.path \in DOMAIN fs
               /\ fs[MovedTo.path] = tool.before.fs[MovedFrom.path]
        /\ ~SourceExisted =>
               /\ ~tool.ok
               /\ fs = tool.before.fs
               /\ cwd = tool.before.cwd

\* move_file("f", "d") without -n returned Ok where d/f was a directory, and
\* the file is now d/f/f while d/f is still a directory
C24_Witness ==
    /\ tool.name = "mv"
    /\ tool.called
    /\ tool.ok
    /\ ~tool.no_clobber
    /\ tool.from = <<"f">>
    /\ tool.to = <<"d">>
    /\ tool.before = Snap(ShadowFs, Root)
    /\ IsFile(fs, <<D, F, F>>)
    /\ IsDir(fs, <<D, F>>)

MultiOperand == {<<"mkdir">>, <<"rmdir">>, <<"touch">>, <<"rm">>}
\* the operands of an argument list that are not flags, and whether a flag
\* of a set is among the arguments
Operands(a) == SelectSeq(a, LAMBDA t : ~StartsWithDash(t))
HasFlag(a, S) == \E i \in 1..Len(a) : a[i] \in S
\* the filesystem call a multi-operand builtin makes for one operand
OneOperand(name, a, op, f, wd) ==
    CASE name = <<"mkdir">> ->
             IF HasFlag(a, {<<"-p">>}) THEN create_dir_all(f, wd, op)
             ELSE create_dir(f, wd, op)
      [] name = <<"rmdir">> -> remove_dir(f, wd, op)
      [] name = <<"touch">> ->
             IF PathExists(f, wd, op) THEN [ok |-> TRUE, fs |-> f]
             ELSE file_create(f, wd, op)
      [] name = <<"rm">> ->
             IF PathIsDir(f, wd, op)
             THEN IF HasFlag(a, {<<"-r">>, <<"-R">>}) THEN remove_dir_all(f, wd, op)
                  ELSE [ok |-> FALSE, fs |-> f]
             ELSE remove_file(f, wd, op)
\* the filesystem after the first n operands, each taken in the state the
\* one before it left
RECURSIVE AfterOperands(_, _, _, _, _)
AfterOperands(name, a, n, f, wd) ==
    IF n = 0 THEN f
    ELSE OneOperand(name, a, Operands(a)[n], AfterOperands(name, a, n - 1, f, wd), wd).fs
OperandFails(name, a, n, f, wd) ==
    ~OneOperand(name, a, Operands(a)[n], AfterOperands(name, a, n - 1, f, wd), wd).ok
\* the first operand that fails, or 0 when none does
FirstFailure(name, a, f, wd) ==
    IF \E n \in 1..Len(Operands(a)) : OperandFails(name, a, n, f, wd)
    THEN CHOOSE n \in 1..Len(Operands(a)) :
             /\ OperandFails(name, a, n, f, wd)
             /\ \A m \in 1..(n - 1) : ~OperandFails(name, a, m, f, wd)
    ELSE 0
\* the multi-operand builtin invoked once: its name, its arguments, the state
\* before, and the number of operands the claim takes to be applied when the
\* first failure is at operand k
StopsAt(applied) ==
    LET name == dispatched[1].name
        a == dispatched[1].args
        f == snaps[1].fs
        wd == snaps[1].cwd
        k == FirstFailure(name, a, f, wd) IN
    IF k = 0
    THEN /\ fs = AfterOperands(name, a, Len(Operands(a)), f, wd)
         /\ stderr = NoError
    ELSE /\ fs = AfterOperands(name, a, IF applied THEN k ELSE k - 1, f, wd)
         /\ stderr # NoError

\* C25 as stated: mkdir, rmdir, touch and rm take their operands left to
\* right and stop at the first that fails; earlier operands stay applied,
\* the failing one and all later ones are untouched, the error is returned.
C25_StopAtFirstFailure ==
    (pc = "once" /\ dispatched[1].name \in MultiOperand) => StopsAt(FALSE)

\* C25: the same, the failing operand being left as its own filesystem call
\* left it (rm -r and mkdir -p may fail after removing or creating a part).
C25_StopAtFailingCall ==
    (pc = "once" /\ dispatched[1].name \in MultiOperand) => StopsAt(TRUE)

\* mkdir g f h: g was created, f exists and fails, h was never created
C25_Witness ==
    /\ pc = "once"
    /\ dispatched[1] = [stage |-> 1, name |-> <<"mkdir">>,
                        args |-> <<<<"g">>, <<"f">>, <<"h">>>>]
    /\ cwd = Root
    /\ stderr # NoError
    /\ IsDir(fs, << <<"g">> >>)
    /\ << <<"g">> >> \notin DOMAIN snaps[1].fs
    /\ IsFile(fs, <<F>>)
    /\ << <<"h">> >> \notin DOMAIN fs

\* the step read a line without a pipe that has a redirection, and the
\* command of the line fails in the state the line was read in
FailedRedirect ==
    /\ SingleStep
    /\ redirect'.some
    /\ ~execute_single_command(cmdText', St(<<>>)).ok
\* the file the redirection of the line names
RedirectTarget == Resolve(fs, cwd, redirect'.file)

\* C26 as stated: when the command of a redirected line fails, the target is
\* not opened, and the target file exists or not, and holds, what it did
\* before the line.
C26_TargetUnchanged ==
    [][FailedRedirect =>
          /\ written' = <<>>
          /\ RedirectTarget.ok =>
                 /\ (RedirectTarget.path \in DOMAIN fs') = (RedirectTarget.path \in DOMAIN fs)
                 /\ HeldAt(fs', RedirectTarget.path) = HeldAt(fs, RedirectTarget.path)]_vars

\* C26: when the command of a redirected line fails, the target is not
\* opened: the filesystem is as the failing command itself left it.
C26_TargetNotOpened ==
    [][FailedRedirect =>
          /\ written' = <<>>
          /\ stderr' # NoError
          /\ fs' = execute_single_command(cmdText', St(<<>>)).fs]_vars

\* a command redirected with > to the existing, non-empty file f failed, and
\* f holds what it held
C26_Witness ==
    /\ SingleTurn
    /\ redirect.some
    /\ ~redirect.append
    /\ redirect.file = <<"f">>
    /\ cwd = Root
    /\ dispatched # <<>>
    /\ stderr # NoError
    /\ written = <<>>
    /\ HeldAt(fs, <<F>>) = <<<<"ho", "\n">>>>

\* the step read a line without a pipe that has a redirection and whose
\* command text is empty
EmptyRedirect ==
    /\ SingleStep
    /\ redirect'.some
    /\ cmdText' = <<>>
\* the target of the line can be opened for writing: it resolves, and not
\* to a directory
TargetOpens == RedirectTarget.ok /\ ~IsDir(fs, RedirectTarget.path)
\* no builtin ran, no error was reported, the target is a file that is empty
\* after > and holds what it held (nothing, if it was absent) after >>, and
\* nothing else changed
OnlyOpened ==
    /\ dispatched' = <<>>
    /\ stderr' = NoError
    /\ stdout' = <<>>
    /\ RedirectTarget.ok
    /\ IsFile(fs', RedirectTarget.path)
    /\ fs'[RedirectTarget.path].content =
           IF redirect'.append THEN PriorAt(fs, RedirectTarget.path) ELSE <<>>
    /\ Without(fs', {RedirectTarget.path}) = Without(fs, {RedirectTarget.path})
    /\ cwd' = cwd

\* C27 as stated: a line that is only a redirection dispatches no builtin,
\* reports no error and opens its target: > leaves it an empty file, >>
\* creates it empty if absent and otherwise leaves its content as it was.
C27_EmptyCommand ==
    [][EmptyRedirect => OnlyOpened]_vars

\* C27: the same where the target can be opened; where it cannot (it is a
\* directory, or no path at all), no builtin is dispatched, the error of the
\* open is reported and nothing changes.
C27_EmptyCommandOpened ==
    [][EmptyRedirect =>
          IF TargetOpens THEN OnlyOpened
          ELSE /\ dispatched' = <<>>
               /\ stderr' # NoError
               /\ fs' = fs
               /\ cwd' = cwd]_vars

\* the line >f was read where f held text: nothing was dispatched, no error
\* was reported, and f is empty
C27_Witness ==
    /\ input = <<">", "f">>
    /\ cwd = Root
    /\ consumed > Len(input) + 1
    /\ dispatched = <<>>
    /\ stderr = NoError
    /\ Len(written) = 1
    /\ HeldAt(fs, <<F>>) = <<<<>>>>
    /\ IsDir(fs, <<D>>)

\* C28: in the turn of a piped line at most one text is printed, none while
\* a stage is still to run and none when a stage has failed; the text
\* printed is that of the last stage, after every stage has succeeded.
C28_PrintedOnce ==
    Contains(input, "|") =>
        /\ Len(stdout) <= 1
        /\ pc = "pipe" => stdout = <<>>
        /\ stderr # NoError => stdout = <<>>
        /\ stdout # <<>> =>
               /\ stderr = NoError
               /\ idx = Len(commands)
               /\ Len(outs) = Len(commands)
               /\ stdout = <<outs[Len(outs)]>>

\* a pipeline of three stages succeeded: the text of its first stage differs
\* from that of its last, and only the last was printed
C28_Witness ==
    /\ Contains(input, "|")
    /\ pc = "prompt"
    /\ stderr = NoError
    /\ Len(commands) = 3
    /\ Len(outs) = 3
    /\ outs[1] # <<>>
    /\ outs[1] # outs[3]
    /\ outs[3] # <<>>
    /\ stdout = <<outs[3]>>

\* C29: a cd whose first argument names nothing, or something that is not a
\* directory, reports an error and leaves the working directory (and the
\* files) as they were; a cd that succeeds leaves every file as it was, moves
\* to the directory named (home without an argument) and returns empty text.
CdRun == pc \in {"once", "twice"} /\ dispatched[1].name = <<"cd">>
CdBefore == snaps[Len(snaps) - 1]
CdAfter == snaps[Len(snaps)]
CdTarget == dispatched[1].args[1]
C29_Cd ==
    CdRun =>
        /\ CdAfter = Snap(fs, cwd)
        /\ (/\ dispatched[1].args # <<>>
            /\ ~PathIsDir(CdBefore.fs, CdBefore.cwd, CdTarget))
           => /\ stderr # NoError
              /\ stderr.msg = IF PathExists(CdBefore.fs, CdBefore.cwd, CdTarget)
                              THEN "cd: Not a directory"
                              ELSE "cd: No such file or directory"
              /\ CdAfter = CdBefore
        /\ stderr # NoError => CdAfter = CdBefore
        /\ stderr = NoError =>
              /\ CdAfter.fs = CdBefore.fs
              /\ output = <<>>
              /\ IsDir(CdAfter.fs, CdAfter.cwd)
              /\ CdAfter.cwd = IF dispatched[1].args = <<>> THEN Home
                               ELSE Resolve(CdBefore.fs, CdBefore.cwd, CdTarget).path

\* `cd d` moved from / into /d without touching a file, and run again there
\* it found no d and left the working directory at /d
C29_Witness ==
    /\ CdRun
    /\ pc = "twice"
    /\ dispatched[1].args # <<>>
    /\ snaps[2].cwd # snaps[1].cwd
    /\ snaps[2].fs = snaps[1].fs
    /\ snaps[2].fs # EmptyFs
    /\ snaps[3] = snaps[2]
    /\ stderr.msg = "cd: No such file or directory"

\* cd was given a regular file: an error, and nothing changed
C29_WitnessFile ==
    /\ CdRun
    /\ dispatched[1].args # <<>>
    /\ PathExists(CdBefore.fs, CdBefore.cwd, CdTarget)
    /\ stderr.msg = "cd: Not a directory"
    /\ CdAfter = CdBefore

\* a line was read whose single command, or whose first stage, is cat with no
\* argument
CatReadsStdin ==
    /\ consumed' # consumed
    /\ dispatched' # <<>>
    /\ dispatched'[1] = [stage |-> 1, name |-> <<"cat">>, args |-> <<>>]
\* the texts cat returns for what standard input may still hold
StdinTexts == {StdinText(rest) : rest \in StdinRests}

\* C30: cat with no argument, as a single command or as the first stage of a
\* piped line, reads standard input to its end and returns the lines read as
\* its text; no line is read by the loop, and so none is taken for a
\* command, once standard input has been read by cat.
C30_CatReadsAll ==
    [][/\ CatReadsStdin =>
           /\ stdin' = "eof"
           /\ IsPiped(input') => (outs' # <<>> /\ outs'[1] \in StdinTexts)
           /\ (~IsPiped(input') /\ ~redirect'.some) =>
                  (stdout' # <<>> /\ stdout'[1] \in StdinTexts)
       /\ stdin = "eof" => (stdin' = "eof" /\ consumed' = consumed)
      ]_vars

\* cat with no argument has returned the error of a line it could not read,
\* and standard input is still open for the loop to read commands from
C30_Witness ==
    /\ pc = "prompt"
    /\ dispatched = <<[stage |-> 1, name |-> <<"cat">>, args |-> <<>>]>>
    /\ stderr = Error("io", <<>>)
    /\ stdout = <<>>
    /\ stdin = "open"

====
